---- MODULE Spec2Model ----
(***************************************************************************)
(* Xuan: a tree-walking interpreter with Chinese keywords.                 *)
(*                                                                         *)
(* The evaluator of src/xuan/interpreter.py is modelled as an abstract     *)
(* machine.  Every Python activation (a visit_* method, execute_block,     *)
(* XUANFunction.__call__, Interpreter.interpret) is a frame on `stack`;    *)
(* the top frame is the running one.  `ret` is the value returned by the   *)
(* activation that completed last, `sig` the Python exception in flight.   *)
(* Environments live in the arena `envs` and are addressed by index; 0 is  *)
(* Python's None.                                                          *)
(*                                                                         *)
(* TLA+ strings are ASCII, so the Chinese spellings of the source are      *)
(* transliterated: "zhen" is 真, "jia" is 假, "shuchu" is 输出, "changdu"  *)
(* is 长度, "zishen" is 自身, "chushihua" is 初始化.                       *)
(***************************************************************************)
EXTENDS Integers, Sequences, FiniteSets, TLC

(***************************************************************************)
(* Bounds of the model.                                                    *)
(***************************************************************************)
\* deepest nesting of compound statements around the statement under test
MaxNest == 2
\* size of the environment arena: Environment() is not called beyond it
MaxEnvs == 9
\* most elif branches of an if statement given to the parser
MaxElif == 2
\* longest chain of scopes the Environment specification starts from
MaxChain == 3
\* largest argument the recursive function is called with
MaxArg == 5

(***************************************************************************)
(* Runtime values.  Every value is a record [t, v].                        *)
(***************************************************************************)
NoneV == [t |-> "none", v |-> 0]
IntV(i) == [t |-> "int", v |-> i]
\* a Python float, kept exact as the pair <<numerator, denominator>>
FloatV(n, d) == [t |-> "float", v |-> <<n, d>>]
StrV(s) == [t |-> "str", v |-> s]
ListV(s) == [t |-> "list", v |-> s]
\* a host callable that Interpreter.__init__ registers (print, len, ...)
BuiltinV(name) == [t |-> "builtin", v |-> name]
\* an exception object bound by `except ... as name`
ExcV(cls) == [t |-> "exception", v |-> cls]
\* XUANFunction(declaration, closure, is_initializer)
XUANFunction(declaration, closure, is_initializer) ==
    [t |-> "function",
     v |-> [declaration |-> declaration, closure |-> closure,
            is_initializer |-> is_initializer]]
\* superclass is a class value or NoneV; methods maps names to functions
XUANClass(name, superclass, methods) ==
    [t |-> "class",
     v |-> [name |-> name, superclass |-> superclass, methods |-> methods]]
\* fields maps names to values
XUANInstance(klass, fields) ==
    [t |-> "instance", v |-> [klass |-> klass, fields |-> fields]]
\* marks a name that is not a key of Environment.values
Unbound == [t |-> "unbound", v |-> 0]

\* the names a program of the model may bind
Names == {"x", "y", "r", "f", "g", "h", "a", "i", "e", "n", "B", "D", "zishen",
          "fulei",
          "shuchu", "shuru", "zhengshu", "fudianshu", "zifuchuan",
          "liebiao", "zidian", "changdu"}

(***************************************************************************)
(* Exceptions in flight.  xuan is TRUE for the subclasses of XUANError of  *)
(* src/xuan/exceptions.py; ReturnValue and the host's own exceptions are   *)
(* plain Exception subclasses.  origin and in_loop record where the        *)
(* exception was raised.                                                   *)
(***************************************************************************)
NoSig == [t |-> "none", cls |-> "", xuan |-> FALSE, value |-> NoneV,
          origin |-> "", in_loop |-> FALSE]
Exc(cls, xuan, origin) ==
    [t |-> "exc", cls |-> cls, xuan |-> xuan, value |-> NoneV,
     origin |-> origin, in_loop |-> FALSE]
\* class ReturnValue(Exception)
ReturnValue(value) ==
    [t |-> "exc", cls |-> "ReturnValue", xuan |-> FALSE, value |-> value,
     origin |-> "Return", in_loop |-> FALSE]

(***************************************************************************)
(* AST nodes (src/ast.py).  NoNode is a child that is None.                *)
(***************************************************************************)
NoNode == [type |-> "NoNode"]
Program(statements) == [type |-> "Program", statements |-> statements]
Block(statements) == [type |-> "Block", statements |-> statements]
IntegerLiteral(value) == [type |-> "IntegerLiteral", value |-> value]
StringLiteral(value) == [type |-> "StringLiteral", value |-> value]
BooleanLiteral(value) == [type |-> "BooleanLiteral", value |-> value]
NoneLiteral == [type |-> "NoneLiteral"]
Identifier(name) == [type |-> "Identifier", name |-> name]
BinaryOperation(left, operator, right) ==
    [type |-> "BinaryOperation", left |-> left, operator |-> operator,
     right |-> right]
UnaryOperation(operator, operand) ==
    [type |-> "UnaryOperation", operator |-> operator, operand |-> operand]
Assignment(name, value) ==
    [type |-> "Assignment", name |-> name, value |-> value]
VariableDeclaration(name, value) ==
    [type |-> "VariableDeclaration", name |-> name, value |-> value]
FunctionDefinition(name, params, body) ==
    [type |-> "FunctionDefinition", name |-> name, params |-> params,
     body |-> body]
FunctionCall(function, args) ==
    [type |-> "FunctionCall", function |-> function, args |-> args]
Return(value) == [type |-> "Return", value |-> value]
If(condition, then_block, else_block) ==
    [type |-> "If", condition |-> condition, then_block |-> then_block,
     else_block |-> else_block]
While(condition, body) ==
    [type |-> "While", condition |-> condition, body |-> body]
For(target, iterable, body) ==
    [type |-> "For", target |-> target, iterable |-> iterable, body |-> body]
Break == [type |-> "Break"]
Continue == [type |-> "Continue"]
Pass == [type |-> "Pass"]
\* except_blocks is a sequence of <<exception_type, exception_name, block>>;
\* an absent exception_name is ""
Try(try_block, except_blocks, finally_block) ==
    [type |-> "Try", try_block |-> try_block, except_blocks |-> except_blocks,
     finally_block |-> finally_block]
Raise(exception) == [type |-> "Raise", exception |-> exception]
List(elements) == [type |-> "List", elements |-> elements]
ExpressionStatement(expression) ==
    [type |-> "ExpressionStatement", expression |-> expression]

\* Parser._parse_assignment, once the target expr and the value are parsed:
\* an Identifier target becomes a VariableDeclaration, never an Assignment
GetAttribute(object, name) ==
    [type |-> "GetAttribute", object |-> object, name |-> name]
SetAttribute(object, name, value) ==
    [type |-> "SetAttribute", object |-> object, name |-> name,
     value |-> value]
GetItem(object, key) == [type |-> "GetItem", object |-> object, key |-> key]
SetItem(object, key, value) ==
    [type |-> "SetItem", object |-> object, key |-> key, value |-> value]
ClassDefinition(name, bases, body) ==
    [type |-> "ClassDefinition", name |-> name, bases |-> bases, body |-> body]
Attribute(value, attr) == [type |-> "Attribute", value |-> value, attr |-> attr]
\* built by parse_or and parse_and as LogicalOperation(expr, operator, right)
LogicalOperation(left, operator, right) ==
    [type |-> "LogicalOperation", left |-> left, operator |-> operator,
     right |-> right]
Subscript(value, index) ==
    [type |-> "Subscript", value |-> value, index |-> index]
\* self.error("invalid assignment target")
ParseError == [type |-> "SyntaxError"]
\* a parser that builds an Assignment node for an Identifier target
parse_assignment_as_Assignment(expr, value) ==
    IF expr.type = "Identifier" THEN Assignment(expr, value)
    ELSE IF expr.type = "GetAttribute"
    THEN SetAttribute(expr.object, expr.name, value)
    ELSE IF expr.type = "GetItem" THEN SetItem(expr.object, expr.key, value)
    ELSE ParseError
\* one round of the postfix loop: expr(args), expr.name or expr[key]
parse_call_or_access(expr, token, rest) ==
    CASE token = "(" -> FunctionCall(expr, rest)
      [] token = "." -> GetAttribute(expr, rest)
      [] token = "[" -> GetItem(expr, rest)

parse_assignment(expr, value) ==
    IF expr.type = "Identifier" THEN VariableDeclaration(expr.name, value)
    ELSE IF expr.type = "GetAttribute"
    THEN SetAttribute(expr.object, expr.name, value)
    ELSE IF expr.type = "GetItem" THEN SetItem(expr.object, expr.key, value)
    ELSE ParseError

(***************************************************************************)
(* The Parser over a token sequence that ends with EOF.  The tokens of the *)
(* model are IF, ELIF, ELSE, RETURN, PASS, COLON, NEWLINE, INDENT, DEDENT, *)
(* EOF, the primaries TRUE, FALSE, NONE, INTEGER and IDENTIFIER, and the    *)
(* arithmetic and comparison operators in both spellings: with no bracket, *)
(* ASSIGN, OR or AND token parse_assignment, parse_or and parse_and hand   *)
(* the expression down to parse_comparison unchanged, and the loop of      *)
(* parse_call_or_access stops at once.  A parser P holds tokens and        *)
(* current (counted from 1); a parse function yields [ok, node, P], or     *)
(* [ok |-> FALSE, message] for self.error(message).  A message is the      *)
(* sequence of its characters, romanised.                                  *)
(***************************************************************************)
Token(type, value) == [type |-> type, value |-> value]
Parser(tokens) == [tokens |-> tokens, current |-> 1]
current_token(P) == P.tokens[P.current]
is_at_end(P) == current_token(P).type = "EOF"
\* current_token stays on the last token once current has passed it
advance(P) ==
    [P EXCEPT !.current = IF @ < Len(P.tokens) THEN @ + 1 ELSE @]
check(P, token_type) == ~is_at_end(P) /\ current_token(P).type = token_type
match(P, token_type) == IF check(P, token_type) THEN advance(P) ELSE P
Parsed(node, P) == [ok |-> TRUE, node |-> node, P |-> P]
error(P, message) ==
    [ok |-> FALSE, node |-> ParseError, P |-> P, message |-> message]

\* Then applied to the value of result, which is computed once
Once(result, Then(_)) == CHOOSE out \in {Then(r) : r \in {result}} : TRUE

parse_primary(P) ==
    LET token == current_token(P)
    IN  IF check(P, "FALSE") THEN Parsed(BooleanLiteral(FALSE), advance(P))
        ELSE IF check(P, "TRUE") THEN Parsed(BooleanLiteral(TRUE), advance(P))
        ELSE IF check(P, "NONE") THEN Parsed(NoneLiteral, advance(P))
        ELSE IF check(P, "INTEGER")
        THEN Parsed(IntegerLiteral(token.value), advance(P))
        ELSE IF check(P, "IDENTIFIER")
        THEN Parsed(Identifier(token.value), advance(P))
        ELSE error(P, <<"qi", "wang", "biao", "da", "shi">>)

\* self._match(t1, t2, ...) would succeed
CheckAny(P, token_types) == \E token_type \in token_types : check(P, token_type)

\* operator_map of _parse_comparison
operator_map(token_value) ==
    CASE token_value = "dayu" -> ">"
      [] token_value = "xiaoyu" -> "<"
      [] token_value = "dengyu" -> "=="
      [] token_value = "budengyu" -> "!="
      [] token_value = "dayudengyu" -> ">="
      [] token_value = "xiaoyudengyu" -> "<="
      [] token_value = "zai" -> "in"
      [] OTHER -> token_value

\* the token types the while loops of _parse_comparison, _parse_term and
\* _parse_factor match
ComparisonTypes == {"EQUAL", "NOT_EQUAL", "LESS", "LESS_EQUAL", "GREATER",
                    "GREATER_EQUAL", "IN"}
TermTypes == {"PLUS", "MINUS", "PLUS_CN", "MINUS_CN"}
FactorTypes == {"MULTIPLY", "DIVIDE", "MODULO", "POWER", "MULTIPLY_CN",
                "DIVIDE_CN", "MODULO_CN", "POWER_CN", "FLOOR_DIVIDE",
                "FLOOR_DIVIDE_CN"}

RECURSIVE parse_unary(_)
RECURSIVE FactorLoop(_, _)
RECURSIVE TermLoop(_, _)
RECURSIVE ComparisonLoop(_, _)
RECURSIVE parse_comparison(_)

\* while self._match(...): expr = BinaryOperation(expr, operator, right)
FactorLoop(P, expr) ==
    IF CheckAny(P, FactorTypes)
    THEN LET operator == current_token(P).value
         IN  Once(parse_unary(advance(P)),
                  LAMBDA right :
                      IF right.ok
                      THEN FactorLoop(right.P,
                                      BinaryOperation(expr, operator,
                                                      right.node))
                      ELSE right)
    ELSE Parsed(expr, P)

parse_factor(P) ==
    Once(parse_unary(P),
         LAMBDA expr : IF expr.ok THEN FactorLoop(expr.P, expr.node)
                       ELSE expr)

TermLoop(P, expr) ==
    IF CheckAny(P, TermTypes)
    THEN LET operator == current_token(P).value
         IN  Once(parse_factor(advance(P)),
                  LAMBDA right :
                      IF right.ok
                      THEN TermLoop(right.P,
                                    BinaryOperation(expr, operator,
                                                    right.node))
                      ELSE right)
    ELSE Parsed(expr, P)

parse_term(P) ==
    Once(parse_factor(P),
         LAMBDA expr : IF expr.ok THEN TermLoop(expr.P, expr.node) ELSE expr)

ComparisonLoop(P, expr) ==
    IF CheckAny(P, ComparisonTypes)
    THEN LET operator == operator_map(current_token(P).value)
         IN  Once(parse_term(advance(P)),
                  LAMBDA right :
                      IF right.ok
                      THEN ComparisonLoop(right.P,
                                          BinaryOperation(expr, operator,
                                                          right.node))
                      ELSE right)
    ELSE Parsed(expr, P)

parse_comparison(P) ==
    Once(parse_term(P),
         LAMBDA expr : IF expr.ok THEN ComparisonLoop(expr.P, expr.node)
                       ELSE expr)

\* the operand of NOT is a comparison, that of MINUS a unary expression
parse_unary(P) ==
    IF CheckAny(P, {"NOT", "MINUS"})
    THEN LET operator == current_token(P).value
         IN  Once(IF operator = "fei" THEN parse_comparison(advance(P))
                  ELSE parse_unary(advance(P)),
                  LAMBDA right :
                      IF right.ok
                      THEN Parsed(UnaryOperation(operator, right.node),
                                  right.P)
                      ELSE right)
    ELSE parse_primary(P)

parse_expression(P) == parse_comparison(P)

parse_expression_statement(P) ==
    Once(parse_expression(P),
         LAMBDA expr :
             IF expr.ok
             THEN Parsed(ExpressionStatement(expr.node),
                         match(expr.P, "NEWLINE"))
             ELSE expr)

\* RETURN has been consumed; only a NEWLINE, not the end, leaves out the value
parse_return_statement(P) ==
    IF check(P, "NEWLINE") THEN Parsed(Return(NoNode), advance(P))
    ELSE Once(parse_expression(P),
              LAMBDA value :
                  IF value.ok
                  THEN Parsed(Return(value.node), match(value.P, "NEWLINE"))
                  ELSE value)

parse_pass_statement(P) == Parsed(Pass, match(P, "NEWLINE"))

\* the nested If nodes of the elif branches from the k-th on, the last one
\* without an else
RECURSIVE ElifChain(_, _)
ElifChain(elif_branches, k) ==
    IF k > Len(elif_branches) THEN NoNode
    ELSE If(elif_branches[k].condition, elif_branches[k].block,
            ElifChain(elif_branches, k + 1))

\* while self._check(NEWLINE): self._advance()
RECURSIVE SkipNewlines(_)
SkipNewlines(P) ==
    IF check(P, "NEWLINE") THEN SkipNewlines(advance(P)) ELSE P

RECURSIVE parse_statement(_)
RECURSIVE parse_block(_)
RECURSIVE BlockStatements(_, _)
RECURSIVE ElifBranches(_, _)
RECURSIVE parse_if_statement(_)

parse_statement(P) ==
    IF check(P, "IF") THEN parse_if_statement(advance(P))
    ELSE IF check(P, "RETURN") THEN parse_return_statement(advance(P))
    ELSE IF check(P, "PASS") THEN parse_pass_statement(advance(P))
    ELSE parse_expression_statement(P)

\* the statements of an indented block up to its DEDENT, which is consumed
BlockStatements(P, statements) ==
    IF ~check(P, "DEDENT") /\ ~is_at_end(P)
    THEN IF check(P, "NEWLINE") THEN BlockStatements(advance(P), statements)
         ELSE Once(parse_statement(P),
                   LAMBDA stmt :
                       IF stmt.ok
                       THEN BlockStatements(stmt.P,
                                            Append(statements, stmt.node))
                       ELSE stmt)
    ELSE IF ~check(P, "DEDENT")
    THEN error(P, <<"dai", "ma", "kuai", "xu", "yao", "jian", "shao", "suo",
                    "jin", "lai", "jie", "shu">>)
    ELSE Parsed(Block(statements), advance(P))

\* a COLON is looked for and never consumed: the single-line branch parses
\* a statement starting at whatever token is current, the COLON included
parse_block(P) ==
    IF ~check(P, "COLON") /\ ~(check(P, "NEWLINE") \/ check(P, "INDENT"))
    THEN error(P, <<"dai", "ma", "kuai", "xu", "yao", "yi", "mao", "hao",
                    "kai", "shi">>)
    ELSE IF ~check(P, "NEWLINE") /\ ~check(P, "EOF")
    THEN Once(parse_statement(P),
              LAMBDA stmt :
                  IF stmt.ok THEN Parsed(Block(<<stmt.node>>), stmt.P)
                  ELSE stmt)
    ELSE Once(SkipNewlines(P),
              LAMBDA Q : IF ~check(Q, "INDENT") THEN Parsed(Block(<<>>), Q)
                         ELSE BlockStatements(advance(Q), <<>>))

\* while self._match(ELIF): condition, block; node holds the branches
ElifBranches(P, elif_branches) ==
    IF check(P, "ELIF")
    THEN Once(parse_expression(advance(P)),
              LAMBDA elif_condition :
                  IF ~elif_condition.ok THEN elif_condition
                  ELSE Once(parse_block(elif_condition.P),
                            LAMBDA elif_then_block :
                                IF ~elif_then_block.ok THEN elif_then_block
                                ELSE ElifBranches(
                                         elif_then_block.P,
                                         Append(elif_branches,
                                                [condition |->
                                                     elif_condition.node,
                                                 block |->
                                                     elif_then_block.node]))))
    ELSE Parsed(elif_branches, P)

\* IF has been consumed.  The loop that builds the chain reuses the name
\* condition: after it, condition is that of the first elif branch, and the
\* chain starts from None, whatever else_block is
IfNode(condition, then_block, branches, else_block) ==
    IF Len(branches.node) > 0
    THEN Parsed(If(branches.node[1].condition, then_block.node,
                   ElifChain(branches.node, 1)), else_block.P)
    ELSE Parsed(If(condition.node, then_block.node, else_block.node),
                else_block.P)

parse_if_statement(P) ==
    Once(parse_expression(P), LAMBDA condition :
    IF ~condition.ok THEN condition
    ELSE Once(parse_block(condition.P), LAMBDA then_block :
    IF ~then_block.ok THEN then_block
    ELSE Once(ElifBranches(then_block.P, <<>>), LAMBDA branches :
    IF ~branches.ok THEN branches
    ELSE Once(IF check(branches.P, "ELSE")
              THEN parse_block(advance(branches.P))
              ELSE Parsed(NoNode, branches.P), LAMBDA else_block :
    IF ~else_block.ok THEN else_block
    ELSE IfNode(condition, then_block, branches, else_block)))))

\* while not self.is_at_end(): skip a NEWLINE or parse a statement
RECURSIVE ProgramStatements(_, _)
ProgramStatements(P, statements) ==
    IF is_at_end(P) THEN Parsed(Program(statements), P)
    ELSE IF check(P, "NEWLINE") THEN ProgramStatements(advance(P), statements)
    ELSE Once(parse_statement(P),
              LAMBDA stmt :
                  IF stmt.ok
                  THEN ProgramStatements(stmt.P,
                                         Append(statements, stmt.node))
                  ELSE stmt)

parse(P) == ProgramStatements(P, <<>>)

(***************************************************************************)
(* Environment (src/xuan/interpreter.py, class Environment).  E is the     *)
(* arena, i the index of self.  values is total over Names, with Unbound   *)
(* for the names that are not keys of the dict.                            *)
(***************************************************************************)
NoValues == [n \in Names |-> Unbound]
Environment(enclosing) == [values |-> NoValues, enclosing |-> enclosing]

\* Environment.define: self.values[name] = value
define(E, i, name, value) == [E EXCEPT ![i].values[name] = value]

\* Environment.get: [ok |-> FALSE] stands for raise NameError
RECURSIVE get(_, _, _)
get(E, i, name) ==
    IF E[i].values[name].t # "unbound"
    THEN [ok |-> TRUE, value |-> E[i].values[name]]
    ELSE IF E[i].enclosing # 0
         THEN get(E, E[i].enclosing, name)
         ELSE [ok |-> FALSE, value |-> NoneV]

\* an assign that looks at its own scope only
assign_own_scope(E, i, name, value) ==
    IF E[i].values[name].t # "unbound"
    THEN [ok |-> TRUE, envs |-> [E EXCEPT ![i].values[name] = value]]
    ELSE [ok |-> FALSE, envs |-> E]

\* Environment.assign: [ok |-> FALSE] stands for raise NameError
RECURSIVE assign(_, _, _, _)
assign(E, i, name, value) ==
    IF E[i].values[name].t # "unbound"
    THEN [ok |-> TRUE, envs |-> [E EXCEPT ![i].values[name] = value]]
    ELSE IF E[i].enclosing # 0
         THEN assign(E, E[i].enclosing, name, value)
         ELSE [ok |-> FALSE, envs |-> E]

(***************************************************************************)
(* Interpreter.is_truthy.  No Python bool reaches it: BooleanLiteral and   *)
(* every comparison evaluate to the strings "zhen" / "jia".                *)
(***************************************************************************)
is_truthy(value) ==
    IF value.t = "none" THEN FALSE
    ELSE IF value.t = "str" /\ value.v = "zhen" THEN TRUE
    ELSE IF value.t = "str" /\ value.v = "jia" THEN FALSE
    ELSE IF value.t = "int" THEN value.v # 0
    ELSE IF value.t = "float" THEN value.v[1] # 0
    ELSE IF value.t = "str" THEN value.v # ""
    ELSE IF value.t = "list" THEN Len(value.v) > 0
    ELSE TRUE

(***************************************************************************)
(* Host arithmetic on int and float operands.  A number is <<n, d>> with   *)
(* d > 0; an int has d = 1.                                                *)
(***************************************************************************)
IsNum(value) == value.t \in {"int", "float"}
Num(value) == IF value.t = "int" THEN <<value.v, 1>> ELSE value.v
\* Python's floor division of integers, for either sign of the divisor
FloorDiv(a, b) == IF b > 0 THEN a \div b ELSE (0 - a) \div (0 - b)
PyMod(a, b) == a - b * FloorDiv(a, b)
RECURSIVE Pow(_, _)
Pow(a, b) == IF b = 0 THEN 1 ELSE a * Pow(a, b - 1)
NumEq(a, b) == Num(a)[1] * Num(b)[2] = Num(b)[1] * Num(a)[2]
NumLt(a, b) == Num(a)[1] * Num(b)[2] < Num(b)[1] * Num(a)[2]
\* the result is an int exactly when both operands are
MkNum(a, b, n, d) ==
    IF a.t = "int" /\ b.t = "int" /\ d = 1 THEN IntV(n) ELSE FloatV(n, d)

Ok(value) == [ok |-> TRUE, value |-> value, exc |-> NoSig]
Fail(exc) == [ok |-> FALSE, value |-> NoneV, exc |-> exc]
HostTypeError == Exc("builtins.TypeError", FALSE, "BinaryOperation")
HostZeroDivisionError ==
    Exc("builtins.ZeroDivisionError", FALSE, "BinaryOperation")
XuanZeroDivisionError == Exc("ZeroDivisionError", TRUE, "BinaryOperation")
Bool(b) == StrV(IF b THEN "zhen" ELSE "jia")

\* left + right
Add(l, r) ==
    IF IsNum(l) /\ IsNum(r)
    THEN Ok(MkNum(l, r, Num(l)[1] * Num(r)[2] + Num(r)[1] * Num(l)[2],
                  Num(l)[2] * Num(r)[2]))
    ELSE IF l.t = "list" /\ r.t = "list" THEN Ok(ListV(l.v \o r.v))
    ELSE IF l.t = "str" /\ r.t = "str" THEN Ok(StrV(l.v \o r.v))
    ELSE Fail(HostTypeError)

\* left - right
Sub(l, r) ==
    IF IsNum(l) /\ IsNum(r)
    THEN Ok(MkNum(l, r, Num(l)[1] * Num(r)[2] - Num(r)[1] * Num(l)[2],
                  Num(l)[2] * Num(r)[2]))
    ELSE Fail(HostTypeError)

\* sequence * n of the host: n copies, none when n <= 0
RECURSIVE Repeat(_, _)
Repeat(value, n) ==
    IF n <= 0 THEN (IF value.t = "str" THEN StrV("") ELSE ListV(<<>>))
    ELSE IF value.t = "str" THEN StrV(value.v \o Repeat(value, n - 1).v)
    ELSE ListV(value.v \o Repeat(value, n - 1).v)

\* left * right
Mul(l, r) ==
    IF IsNum(l) /\ IsNum(r)
    THEN Ok(MkNum(l, r, Num(l)[1] * Num(r)[1], Num(l)[2] * Num(r)[2]))
    ELSE IF l.t \in {"str", "list"} /\ r.t = "int" THEN Ok(Repeat(l, r.v))
    ELSE IF l.t = "int" /\ r.t \in {"str", "list"} THEN Ok(Repeat(r, l.v))
    ELSE Fail(HostTypeError)

\* a guard that never finds a zero
IsZero_never(r) == FALSE

\* the guard `if right == 0`: == between a number and anything else is False
IsZero(r) == IsNum(r) /\ Num(r)[1] = 0

\* left / right in the host: true division always yields a float
TrueDiv(l, r) ==
    IF IsNum(l) /\ IsNum(r)
    THEN IF Num(r)[1] = 0 THEN Fail(HostZeroDivisionError)
         ELSE LET n == Num(l)[1] * Num(r)[2]
                  d == Num(l)[2] * Num(r)[1]
              IN  Ok(IF d > 0 THEN FloatV(n, d) ELSE FloatV(0 - n, 0 - d))
    ELSE Fail(HostTypeError)

\* left // right in the host (integer operands in the model)
FloorDivide(l, r) ==
    IF l.t = "int" /\ r.t = "int"
    THEN IF r.v = 0 THEN Fail(HostZeroDivisionError)
         ELSE Ok(IntV(FloorDiv(l.v, r.v)))
    ELSE Fail(HostTypeError)

\* left % right: no guard in the source, the host raises on zero
Modulo(l, r) ==
    IF l.t = "int" /\ r.t = "int"
    THEN IF r.v = 0 THEN Fail(HostZeroDivisionError)
         ELSE Ok(IntV(PyMod(l.v, r.v)))
    \* a str on the left is a format string; the strings of the model hold
    \* no conversion specifier, so a list argument is left unused and any
    \* other argument is one too many
    ELSE IF l.t = "str" /\ r.t = "list" THEN Ok(l)
    ELSE Fail(HostTypeError)

\* left ** right (non-negative integer exponents in the model)
Power(l, r) ==
    IF l.t = "int" /\ r.t = "int" /\ r.v >= 0 THEN Ok(IntV(Pow(l.v, r.v)))
    ELSE Fail(HostTypeError)

\* a == b of the host: never raises, False across unrelated types
HostEq(a, b) ==
    IF IsNum(a) /\ IsNum(b) THEN NumEq(a, b)
    ELSE IF a.t # b.t THEN FALSE
    ELSE a = b

\* the operands a < b of the host accepts: two numbers, two strings, or two
\* lists whose compared elements are numbers
Ordered(a, b) ==
    \/ IsNum(a) /\ IsNum(b)
    \/ a.t = "str" /\ b.t = "str"
    \/ /\ a.t = "list" /\ b.t = "list"
       /\ \A k \in 1 .. Len(a.v) : k <= Len(b.v) => IsNum(a.v[k]) /\ IsNum(b.v[k])
\* the code points of the characters the strings of the model are ordered by
Ord(c) == CASE c = "1" -> 49 [] c = "5" -> 53 [] c = "a" -> 97 [] OTHER -> 0
RECURSIVE SeqLt(_, _)
SeqLt(s, t) ==
    IF t = <<>> THEN FALSE
    ELSE IF s = <<>> THEN TRUE
    ELSE IF NumLt(Head(s), Head(t)) THEN TRUE
    ELSE IF NumLt(Head(t), Head(s)) THEN FALSE
    ELSE SeqLt(Tail(s), Tail(t))
\* a < b of the host on operands it accepts; strings of at most one
\* character in the model
HostLt(a, b) ==
    IF IsNum(a) THEN NumLt(a, b)
    ELSE IF a.t = "str" THEN Ord(a.v) < Ord(b.v)
    ELSE SeqLt(a.v, b.v)

\* try_compare(a, b, op_func): its `except TypeError` names the TypeError of
\* src/xuan/exceptions.py (from .exceptions import *), which the host never
\* raises, so a host TypeError of op_func leaves try_compare as it is
try_compare(a, b, op) ==
    IF op = "==" THEN Ok(Bool(HostEq(a, b)))
    ELSE IF op = "!=" THEN Ok(Bool(~HostEq(a, b)))
    ELSE IF Ordered(a, b)
    THEN Ok(Bool(CASE op = "<" -> HostLt(a, b)
                   [] op = "<=" -> HostLt(a, b) \/ HostEq(a, b)
                   [] op = ">" -> HostLt(b, a)
                   [] op = ">=" -> HostLt(b, a) \/ HostEq(a, b)))
    ELSE Fail(HostTypeError)

\* the operator dispatch of visit_BinaryOperation, after both operands
BinaryOp(op, left, right) ==
    CASE op \in {"+", "jia_op"} -> Add(left, right)
      [] op \in {"-", "jian"} -> Sub(left, right)
      [] op \in {"*", "cheng"} -> Mul(left, right)
      [] op \in {"/", "chu"} ->
            IF IsZero(right) THEN Fail(XuanZeroDivisionError)
            ELSE TrueDiv(left, right)
      [] op \in {"%", "yu_op"} -> Modulo(left, right)
      [] op \in {"**", "mi"} -> Power(left, right)
      [] op \in {"//", "zhengchu"} ->
            IF IsZero(right) THEN Fail(XuanZeroDivisionError)
            ELSE FloorDivide(left, right)
      [] op \in {"==", "dengyu"} -> try_compare(left, right, "==")
      [] op \in {"!=", "budengyu"} -> try_compare(left, right, "!=")
      [] op \in {"<", "xiaoyu"} -> try_compare(left, right, "<")
      [] op \in {"<=", "xiaoyudengyu"} -> try_compare(left, right, "<=")
      [] op \in {">", "dayu"} -> try_compare(left, right, ">")
      [] op \in {">=", "dayudengyu"} -> try_compare(left, right, ">=")
      [] op = "and" -> Ok(Bool(is_truthy(left) /\ is_truthy(right)))
      [] op \in {"or", "huo"} -> Ok(Bool(is_truthy(left) \/ is_truthy(right)))
      [] OTHER -> Fail(Exc("SyntaxError", TRUE, "BinaryOperation"))

(***************************************************************************)
(* State.                                                                  *)
(***************************************************************************)
VARIABLES
    input,        \* which programs were chosen, as [family, ws, core, a, b,
                  \* kind, op]
    units,        \* the parsed programs the host feeds to one Interpreter
    unit,         \* how many of them run_repl has handed to interpret
    stack,        \* the Python activations, innermost last
    envs,         \* the arena of Environment objects
    environment,  \* Interpreter.environment, an index into envs
    ret,          \* the value the last completed activation returned
    sig,          \* the exception in flight, NoSig when there is none
    output,       \* what print has written
    outcome,      \* how the last interpret call left: value or exception
    snapshot,     \* history: globals.values when the last top-level
                  \* statement completed
    touched,      \* history: the global names bound since then
    last_call,    \* history: the last completed XUANFunction.__call__
    last_try,     \* history: the last completed visit_Try
    expr_value,   \* history: the value of the last ExpressionStatement
    call          \* history: the last Environment method applied directly

vars == <<input, units, unit, stack, envs, environment, ret, sig, output, outcome,
          snapshot, touched, last_call, last_try, expr_value, call>>

\* Interpreter.globals
globals == 1

\* the callables Interpreter.__init__ defines in globals
BuiltinNames == {"shuchu", "shuru", "zhengshu", "fudianshu", "zifuchuan",
                 "liebiao", "zidian", "changdu"}

\* Interpreter.__init__: globals with the built-in functions, environment
\* pointing at it
InterpreterInit ==
    [values |-> [n \in Names |->
                    IF n \in BuiltinNames THEN BuiltinV(n) ELSE Unbound],
     enclosing |-> 0]

NoCall == [op |-> "", name |-> "", value |-> NoneV, at |-> 0,
           before |-> <<>>]
NoOutcome == [status |-> "none", value |-> NoneV, cls |-> "", origin |-> ""]
NoLastCall == [returned |-> FALSE, value |-> NoneV, result |-> NoneV,
               completed |-> FALSE]
NoLastTry == [has_finally |-> FALSE, finally_runs |-> 0, left |-> "",
              completed |-> FALSE]

(***************************************************************************)
(* Frames.                                                                 *)
(***************************************************************************)
\* node.accept(visitor): the activation of visit_<type>(node)
Visit(node) ==
    [f |-> "visit", node |-> node, pc |-> 0, vals |-> <<>>,
     pending |-> NoSig, runs |-> 0]
\* execute_block(statements, environment); at_call is the history of
\* Interpreter.environment at the moment of the call
ExecuteBlock(statements, env, at_call) ==
    [f |-> "execute_block", statements |-> statements, environment |-> env,
     previous |-> 0, pc |-> 0, at_call |-> at_call]
\* XUANFunction.__call__(interpreter, arguments); returned/value are the
\* history of the return statements executed in this call
CallFrame(self, arguments) ==
    [f |-> "__call__", self |-> self, arguments |-> arguments, pc |-> 0,
     environment |-> 0, returned |-> FALSE, value |-> NoneV]
InterpretFrame(program) == [f |-> "interpret", program |-> program, pc |-> 0]
ReplFrame == [f |-> "run_repl", pc |-> 0]

Top == stack[Len(stack)]
Below == SubSeq(stack, 1, Len(stack) - 1)
Running == Len(stack) > 0 /\ sig.t = "none"
Unwinding == Len(stack) > 0 /\ sig.t = "exc"
IsVisit(type) == Top.f = "visit" /\ Top.node.type = type

\* the top activation returns value to its caller
Returns(value) == stack' = Below /\ ret' = value /\ sig' = NoSig
\* the top activation raises exc
Raises(exc) == stack' = Below /\ sig' = exc /\ UNCHANGED ret
\* the top activation, now at pc, calls callee
Calls(pc, callee) ==
    /\ stack' = Append(Below, [Top EXCEPT !.pc = pc]) \o <<callee>>
    /\ UNCHANGED <<ret, sig>>
\* the same when the activation also stores locals
CallsWith(frame, callee) ==
    /\ stack' = Append(Below, frame) \o <<callee>>
    /\ UNCHANGED <<ret, sig>>

session == <<input, units, unit, outcome>>
store == <<envs, environment>>
history == <<snapshot, touched, last_call, last_try, expr_value, call>>
calls_history == <<last_call, last_try, expr_value, call>>

\* history: name is bound in the scope at, by define or assign
Touch(at, name) ==
    touched' = IF at = globals THEN touched \cup {name} ELSE touched

\* everything but the machine registers stack, ret and sig
others == <<input, units, unit, envs, environment, output, outcome, snapshot,
            touched, last_call, last_try, expr_value, call>>

\* a host that makes a new Interpreter for every unit
run_repl_fresh_interpreter ==
    /\ Len(stack) > 0 /\ Top.f = "run_repl"
    /\ \/ /\ Top.pc = 0 /\ unit < Len(units)
          \* result = interpreter.interpret(program)
          /\ unit' = unit + 1
          /\ Calls(1, InterpretFrame(units[unit + 1]))
          /\ outcome' = NoOutcome
          /\ envs' = <<InterpreterInit>>
          /\ environment' = globals
          /\ UNCHANGED <<input, units, output, history>>
       \/ /\ Top.pc = 0 /\ unit = Len(units)
          \* input() raises EOFError: the loop ends
          /\ stack' = Below
          /\ UNCHANGED <<ret, sig, others>>
       \/ /\ Top.pc = 1 /\ sig.t = "none"
          \* if result is not None: print(result)
          /\ outcome' = [NoOutcome EXCEPT !.status = "returned", !.value = ret]
          /\ output' = IF ret.t # "none" THEN Append(output, <<ret>>)
                       ELSE output
          /\ stack' = Append(Below, [Top EXCEPT !.pc = 0])
          /\ UNCHANGED <<ret, sig, input, units, unit, store, history>>
       \/ /\ Top.pc = 1 /\ sig.t = "exc"
          \* except XUANError: print(e) / except Exception: print(...)
          /\ outcome' = [NoOutcome EXCEPT !.status = "raised",
                            !.cls = sig.cls, !.origin = sig.origin]
          /\ output' = Append(output, <<ExcV(sig.cls)>>)
          /\ stack' = Append(Below, [Top EXCEPT !.pc = 0])
          /\ sig' = NoSig
          /\ UNCHANGED <<ret, input, units, unit, store, history>>

(***************************************************************************)
(* The host: run_repl of src/xuan/main.py, from the point where a unit has *)
(* been parsed.  One Interpreter serves every unit.                        *)
(***************************************************************************)
run_repl ==
    /\ Len(stack) > 0 /\ Top.f = "run_repl"
    /\ \/ /\ Top.pc = 0 /\ unit < Len(units)
          \* result = interpreter.interpret(program)
          /\ unit' = unit + 1
          /\ Calls(1, InterpretFrame(units[unit + 1]))
          /\ outcome' = NoOutcome
          /\ UNCHANGED <<input, units, store, output, history>>
       \/ /\ Top.pc = 0 /\ unit = Len(units)
          \* input() raises EOFError: the loop ends
          /\ stack' = Below
          /\ UNCHANGED <<ret, sig, others>>
       \/ /\ Top.pc = 1 /\ sig.t = "none"
          \* if result is not None: print(result)
          /\ outcome' = [NoOutcome EXCEPT !.status = "returned", !.value = ret]
          /\ output' = IF ret.t # "none" THEN Append(output, <<ret>>)
                       ELSE output
          /\ stack' = Append(Below, [Top EXCEPT !.pc = 0])
          /\ UNCHANGED <<ret, sig, input, units, unit, store, history>>
       \/ /\ Top.pc = 1 /\ sig.t = "exc"
          \* except XUANError: print(e) / except Exception: print(...)
          /\ outcome' = [NoOutcome EXCEPT !.status = "raised",
                            !.cls = sig.cls, !.origin = sig.origin]
          /\ output' = Append(output, <<ExcV(sig.cls)>>)
          /\ stack' = Append(Below, [Top EXCEPT !.pc = 0])
          /\ sig' = NoSig
          /\ UNCHANGED <<ret, input, units, unit, store, history>>

(***************************************************************************)
(* Interpreter.interpret: executes the statements in order; it has no      *)
(* return statement.  An XUANError is re-raised, any other exception       *)
(* becomes RuntimeError(str(e)).                                           *)
(***************************************************************************)
interpret ==
    /\ Len(stack) > 0 /\ Top.f = "interpret"
    /\ \/ /\ sig.t = "none" /\ Top.pc < Len(Top.program.statements)
          /\ Calls(Top.pc + 1, Visit(Top.program.statements[Top.pc + 1]))
          /\ IF Top.pc >= 1
             THEN snapshot' = envs[globals].values /\ touched' = {}
             ELSE UNCHANGED <<snapshot, touched>>
          /\ UNCHANGED <<session, store, output, calls_history>>
       \/ /\ sig.t = "none" /\ Top.pc = Len(Top.program.statements)
          /\ Returns(NoneV)
          /\ IF Top.pc >= 1
             THEN snapshot' = envs[globals].values /\ touched' = {}
             ELSE UNCHANGED <<snapshot, touched>>
          /\ UNCHANGED <<session, store, output, calls_history>>
       \/ /\ sig.t = "exc"
          /\ IF sig.xuan THEN Raises(sig)
             ELSE Raises([sig EXCEPT !.cls = "RuntimeError", !.xuan = TRUE])
          /\ UNCHANGED others

\* an execute_block whose restore is not in a finally clause: it is skipped
\* when a statement raises
execute_block_no_finally ==
    /\ Len(stack) > 0 /\ Top.f = "execute_block"
    /\ \/ /\ sig.t = "none" /\ Top.pc = 0
          /\ stack' = Append(Below, [Top EXCEPT !.previous = environment,
                                                !.pc = 1])
          /\ environment' = Top.environment
          /\ UNCHANGED <<ret, sig, envs>>
       \/ /\ sig.t = "none" /\ Top.pc >= 1 /\ Top.pc <= Len(Top.statements)
          /\ Calls(Top.pc + 1, Visit(Top.statements[Top.pc]))
          /\ UNCHANGED store
       \/ /\ sig.t = "none" /\ Top.pc > Len(Top.statements)
          /\ environment' = Top.previous
          /\ Returns(NoneV)
          /\ UNCHANGED envs
       \/ /\ sig.t = "exc"
          /\ Raises(sig)
          /\ UNCHANGED store
    /\ UNCHANGED <<session, output, history>>

(***************************************************************************)
(* Interpreter.execute_block: previous = self.environment; try: switch     *)
(* and run the statements; finally: self.environment = previous.           *)
(***************************************************************************)
execute_block ==
    /\ Len(stack) > 0 /\ Top.f = "execute_block"
    /\ \/ /\ sig.t = "none" /\ Top.pc = 0
          /\ stack' = Append(Below, [Top EXCEPT !.previous = environment,
                                                !.pc = 1])
          /\ environment' = Top.environment
          /\ UNCHANGED <<ret, sig, envs>>
       \/ /\ sig.t = "none" /\ Top.pc >= 1 /\ Top.pc <= Len(Top.statements)
          /\ Calls(Top.pc + 1, Visit(Top.statements[Top.pc]))
          /\ UNCHANGED store
       \/ /\ sig.t = "none" /\ Top.pc > Len(Top.statements)
          /\ environment' = Top.previous
          /\ Returns(NoneV)
          /\ UNCHANGED envs
       \/ /\ sig.t = "exc"
          /\ environment' = Top.previous
          /\ Raises(sig)
          /\ UNCHANGED envs
    /\ UNCHANGED <<session, output, history>>

\* visit_Block: execute_block(block.statements, Environment(self.environment))
visit_Block ==
    /\ Running /\ IsVisit("Block")
    /\ \/ /\ Top.pc = 0 /\ Len(envs) < MaxEnvs
          /\ envs' = Append(envs, Environment(environment))
          /\ Calls(1, ExecuteBlock(Top.node.statements, Len(envs) + 1,
                                   environment))
       \/ /\ Top.pc = 1
          /\ Returns(NoneV)
          /\ UNCHANGED envs
    /\ UNCHANGED <<session, environment, output, history>>

\* visit_ExpressionStatement: evaluates the expression, returns nothing
visit_ExpressionStatement ==
    /\ Running /\ IsVisit("ExpressionStatement")
    /\ \/ /\ Top.pc = 0
          /\ Calls(1, Visit(Top.node.expression))
          /\ UNCHANGED expr_value
       \/ /\ Top.pc = 1
          /\ Returns(NoneV)
          /\ expr_value' = ret
    /\ UNCHANGED <<session, store, output, snapshot, touched, last_call,
                   last_try, call>>

\* visit_FunctionDefinition: the closure is the current environment
visit_FunctionDefinition ==
    /\ Running /\ IsVisit("FunctionDefinition")
    /\ envs' = define(envs, environment, Top.node.name,
                      XUANFunction(Top.node, environment, FALSE))
    /\ Touch(environment, Top.node.name)
    /\ Returns(NoneV)
    /\ UNCHANGED <<session, environment, output, snapshot, calls_history>>

(***************************************************************************)
(* XUANFunction.__call__.                                                  *)
(***************************************************************************)
\* a call that binds no parameter
BindParams_nothing(values, params, arguments) == values

\* zip(self.declaration.params, arguments) defined into environment
RECURSIVE BindParams(_, _, _)
BindParams(values, params, arguments) ==
    IF params = <<>> \/ arguments = <<>> THEN values
    ELSE BindParams([values EXCEPT ![Head(params)] = Head(arguments)],
                    Tail(params), Tail(arguments))

\* a call environment enclosed by the caller's scope instead of the closure
CallEnvironment_in_caller(self, arguments) ==
    [values |-> BindParams(NoValues, self.declaration.params, arguments),
     enclosing |-> environment]

\* environment = Environment(self.closure) with the parameters defined
CallEnvironment(self, arguments) ==
    [values |-> BindParams(NoValues, self.declaration.params, arguments),
     enclosing |-> self.closure]

\* history of the call that is completing with result
CallDone(result) ==
    last_call' = [returned |-> Top.returned, value |-> Top.value,
                  result |-> result, completed |-> TRUE]

\* the value of a call that ends without an error: closure.get("zishen")
\* for an initializer, else result
CallResult(self, result) ==
    IF self.is_initializer THEN get(envs, self.closure, "zishen")
    ELSE [ok |-> TRUE, value |-> result]

XUANFunction_call ==
    /\ Len(stack) > 0 /\ Top.f = "__call__"
    /\ \/ /\ sig.t = "none" /\ Top.pc = 0 /\ Len(envs) < MaxEnvs
          /\ envs' = Append(envs, CallEnvironment(Top.self, Top.arguments))
          /\ CallsWith([Top EXCEPT !.pc = 1, !.environment = Len(envs) + 1],
                       ExecuteBlock(Top.self.declaration.body.statements,
                                    Len(envs) + 1, environment))
          /\ UNCHANGED last_call
       \/ /\ sig.t = "none" /\ Top.pc = 1
          \* the body fell through
          /\ LET r == CallResult(Top.self, NoneV)
             IN  IF r.ok THEN Returns(r.value) /\ CallDone(r.value)
                 ELSE Raises(Exc("NameError", TRUE, "__call__"))
                      /\ UNCHANGED last_call
          /\ UNCHANGED envs
       \/ /\ sig.t = "exc" /\ sig.cls = "ReturnValue"
          \* except ReturnValue as return_value
          /\ LET r == CallResult(Top.self, sig.value)
             IN  IF r.ok THEN Returns(r.value) /\ CallDone(r.value)
                 ELSE Raises(Exc("NameError", TRUE, "__call__"))
                      /\ UNCHANGED last_call
          /\ UNCHANGED envs
       \/ /\ sig.t = "exc" /\ sig.cls # "ReturnValue"
          /\ Raises(sig)
          /\ UNCHANGED <<envs, last_call>>
    /\ UNCHANGED <<session, environment, output, snapshot, touched, last_try,
                   expr_value, call>>

(***************************************************************************)
(* Statements.                                                             *)
(***************************************************************************)
\* the innermost __call__ activation of s, 0 when there is none
RECURSIVE NearestCall(_)
NearestCall(s) ==
    IF s = <<>> THEN 0
    ELSE IF s[Len(s)].f = "__call__" THEN Len(s)
    ELSE NearestCall(SubSeq(s, 1, Len(s) - 1))

\* history: the innermost call has executed a return of value
MarkReturn(s, value) ==
    IF NearestCall(s) = 0 THEN s
    ELSE [s EXCEPT ![NearestCall(s)].returned = TRUE,
                   ![NearestCall(s)].value = value]

\* is the innermost of the enclosing loops and calls of s a loop?
RECURSIVE InLoop(_)
InLoop(s) ==
    IF s = <<>> THEN FALSE
    ELSE IF s[Len(s)].f \in {"__call__", "interpret"} THEN FALSE
    ELSE IF s[Len(s)].f = "visit" /\ s[Len(s)].node.type \in {"While", "For"}
         THEN TRUE
    ELSE InLoop(SubSeq(s, 1, Len(s) - 1))

\* visit_Return: raise ReturnValue(value)
visit_Return ==
    /\ Running /\ IsVisit("Return")
    /\ \/ /\ Top.pc = 0 /\ Top.node.value.type # "NoNode"
          /\ Calls(1, Visit(Top.node.value))
       \/ /\ Top.pc = 0 /\ Top.node.value.type = "NoNode"
          /\ stack' = MarkReturn(Below, NoneV)
          /\ sig' = ReturnValue(NoneV)
          /\ UNCHANGED ret
       \/ /\ Top.pc = 1
          /\ stack' = MarkReturn(Below, ret)
          /\ sig' = ReturnValue(ret)
          /\ UNCHANGED ret
    /\ UNCHANGED others

\* visit_If
visit_If ==
    /\ Running /\ IsVisit("If")
    /\ \/ /\ Top.pc = 0
          /\ Calls(1, Visit(Top.node.condition))
       \/ /\ Top.pc = 1 /\ is_truthy(ret)
          /\ Calls(2, Visit(Top.node.then_block))
       \/ /\ Top.pc = 1 /\ ~is_truthy(ret)
          /\ Top.node.else_block.type # "NoNode"
          /\ Calls(2, Visit(Top.node.else_block))
       \/ /\ Top.pc = 1 /\ ~is_truthy(ret)
          /\ Top.node.else_block.type = "NoNode"
          /\ Returns(NoneV)
       \/ /\ Top.pc = 2
          /\ Returns(NoneV)
    /\ UNCHANGED others

\* visit_While: no handler around the body
visit_While ==
    /\ Running /\ IsVisit("While")
    /\ \/ /\ Top.pc = 0
          /\ Calls(1, Visit(Top.node.condition))
       \/ /\ Top.pc = 1 /\ is_truthy(ret)
          /\ Calls(0, Visit(Top.node.body))
       \/ /\ Top.pc = 1 /\ ~is_truthy(ret)
          /\ Returns(NoneV)
    /\ UNCHANGED others

\* visit_For: a fresh environment per item, no handler around the body.
\* vals[1] is the iterable, runs the number of items taken.
visit_For ==
    /\ Running /\ IsVisit("For")
    /\ \/ /\ Top.pc = 0
          /\ Calls(1, Visit(Top.node.iterable))
          /\ UNCHANGED envs
       \/ /\ Top.pc = 1 /\ ret.t # "list"
          \* the host's iter() fails on a value that is not iterable
          /\ Raises(Exc("builtins.TypeError", FALSE, "For"))
          /\ UNCHANGED envs
       \/ /\ Top.pc \in {1, 2}
          /\ LET iterable == IF Top.pc = 1 THEN ret ELSE Top.vals[1]
             IN  /\ iterable.t = "list"
                 /\ IF Top.runs < Len(iterable.v)
                    THEN /\ Len(envs) < MaxEnvs
                         /\ envs' = Append(envs,
                               [values |-> [NoValues EXCEPT
                                     ![Top.node.target.name] =
                                         iterable.v[Top.runs + 1]],
                                enclosing |-> environment])
                         /\ CallsWith([Top EXCEPT !.pc = 2,
                                          !.vals = <<iterable>>,
                                          !.runs = Top.runs + 1],
                               ExecuteBlock(Top.node.body.statements,
                                            Len(envs) + 1, environment))
                    ELSE Returns(NoneV) /\ UNCHANGED envs
    /\ UNCHANGED <<session, environment, output, history>>

\* visit_Break: raise StopIteration() of src/xuan/exceptions.py
visit_Break ==
    /\ Running /\ IsVisit("Break")
    /\ Raises([Exc("StopIteration", TRUE, "Break") EXCEPT
                  !.in_loop = InLoop(Below)])
    /\ UNCHANGED others

\* visit_Continue: raise RuntimeError("Continue not implemented")
visit_Continue ==
    /\ Running /\ IsVisit("Continue")
    /\ Raises([Exc("RuntimeError", TRUE, "Continue") EXCEPT
                  !.in_loop = InLoop(Below)])
    /\ UNCHANGED others

\* visit_Pass
visit_Pass ==
    /\ Running /\ IsVisit("Pass")
    /\ Returns(NoneV)
    /\ UNCHANGED others

(***************************************************************************)
(* visit_Try.  pc 1: in the try block, pc 2: in the first except block,    *)
(* pc 3: in the finally block.  pending is the exception that leaves the   *)
(* try/except part, runs counts the executions of the finally block.       *)
(***************************************************************************)
\* history of the try statement that is left with the exception p
TryDone(frame, p) ==
    last_try' = [has_finally |-> frame.node.finally_block.type # "NoNode",
                 finally_runs |-> frame.runs, left |-> p.cls,
                 completed |-> TRUE]

\* a finally clause that is skipped when an exception is pending
TryFinally_unless_raising(p) ==
    IF Top.node.finally_block.type # "NoNode" /\ p.t = "none"
    THEN /\ stack' = Append(Below, [Top EXCEPT !.pc = 3, !.pending = p,
                                               !.runs = Top.runs + 1])
                     \o <<Visit(Top.node.finally_block)>>
         /\ sig' = NoSig
         /\ UNCHANGED <<ret, last_try>>
    ELSE /\ IF p.t = "exc" THEN Raises(p) ELSE Returns(NoneV)
         /\ TryDone(Top, p)

\* the finally clause, entered with the exception p (NoSig: none) pending
TryFinally(p) ==
    IF Top.node.finally_block.type # "NoNode"
    THEN /\ stack' = Append(Below, [Top EXCEPT !.pc = 3, !.pending = p,
                                               !.runs = Top.runs + 1])
                     \o <<Visit(Top.node.finally_block)>>
         /\ sig' = NoSig
         /\ UNCHANGED <<ret, last_try>>
    ELSE /\ IF p.t = "exc" THEN Raises(p) ELSE Returns(NoneV)
         /\ TryDone(Top, p)

visit_Try ==
    /\ Len(stack) > 0 /\ IsVisit("Try")
    /\ \/ /\ sig.t = "none" /\ Top.pc = 0
          /\ Calls(1, Visit(Top.node.try_block))
          /\ UNCHANGED <<envs, touched, last_try>>
       \/ /\ sig.t = "none" /\ Top.pc \in {1, 2}
          \* the try block, or the handler and its `return`, completed
          /\ TryFinally(NoSig)
          /\ UNCHANGED <<envs, touched>>
       \/ /\ sig.t = "exc" /\ Top.pc = 1 /\ Top.node.except_blocks # <<>>
          \* except Exception as e: the first except block handles it,
          \* whatever exception type it declares
          /\ LET exception_name == Top.node.except_blocks[1][2]
                 block == Top.node.except_blocks[1][3]
             IN  /\ IF exception_name # ""
                    THEN /\ envs' = define(envs, environment, exception_name,
                                           ExcV(sig.cls))
                         /\ Touch(environment, exception_name)
                    ELSE UNCHANGED <<envs, touched>>
                 /\ stack' = Append(Below, [Top EXCEPT !.pc = 2])
                                \o <<Visit(block)>>
                 /\ sig' = NoSig
                 /\ UNCHANGED <<ret, last_try>>
       \/ /\ sig.t = "exc" /\ Top.pc = 1 /\ Top.node.except_blocks = <<>>
          \* no except block: raise
          /\ TryFinally(sig)
          /\ UNCHANGED <<envs, touched>>
       \/ /\ sig.t = "exc" /\ Top.pc = 2
          \* the handler failed
          /\ TryFinally(sig)
          /\ UNCHANGED <<envs, touched>>
       \/ /\ sig.t = "none" /\ Top.pc = 3
          \* the finally block completed: the pending exception goes on
          /\ IF Top.pending.t = "exc" THEN Raises(Top.pending)
             ELSE Returns(NoneV)
          /\ TryDone(Top, Top.pending)
          /\ UNCHANGED <<envs, touched>>
       \/ /\ sig.t = "exc" /\ Top.pc = 3
          \* the finally block failed: its exception replaces the pending one
          /\ Raises(sig)
          /\ TryDone(Top, sig)
          /\ UNCHANGED <<envs, touched>>
    /\ UNCHANGED <<session, environment, output, snapshot, last_call,
                   expr_value, call>>

(***************************************************************************)
(* Expressions.                                                            *)
(***************************************************************************)
\* visit_BinaryOperation: left, then right, then the operator
visit_BinaryOperation ==
    /\ Running /\ IsVisit("BinaryOperation")
    /\ \/ /\ Top.pc = 0
          /\ Calls(1, Visit(Top.node.left))
       \/ /\ Top.pc = 1
          /\ CallsWith([Top EXCEPT !.pc = 2, !.vals = <<ret>>],
                       Visit(Top.node.right))
       \/ /\ Top.pc = 2
          /\ LET r == BinaryOp(Top.node.operator, Top.vals[1], ret)
             IN  IF r.ok THEN Returns(r.value) ELSE Raises(r.exc)
    /\ UNCHANGED others

\* visit_VariableDeclaration: self.environment.define(name, value)
visit_VariableDeclaration ==
    /\ Running /\ IsVisit("VariableDeclaration")
    /\ \/ /\ Top.pc = 0 /\ Top.node.value.type # "NoNode"
          /\ Calls(1, Visit(Top.node.value))
          /\ UNCHANGED <<envs, touched>>
       \/ /\ Top.pc = 0 /\ Top.node.value.type = "NoNode"
          /\ envs' = define(envs, environment, Top.node.name, NoneV)
          /\ Touch(environment, Top.node.name)
          /\ Returns(NoneV)
       \/ /\ Top.pc = 1
          /\ envs' = define(envs, environment, Top.node.name, ret)
          /\ Touch(environment, Top.node.name)
          /\ Returns(ret)
    /\ UNCHANGED <<session, environment, output, snapshot, calls_history>>

\* the scope Environment.assign writes, 0 when it raises
RECURSIVE AssignedScope(_, _, _)
AssignedScope(E, i, name) ==
    IF E[i].values[name].t # "unbound" THEN i
    ELSE IF E[i].enclosing # 0 THEN AssignedScope(E, E[i].enclosing, name)
    ELSE 0

\* visit_Assignment with an Identifier target:
\* self.environment.assign(name, value); any target that is not an
\* Identifier, Attribute or Subscript is a SyntaxError
visit_Assignment ==
    /\ Running /\ IsVisit("Assignment")
    /\ \/ /\ Top.pc = 0
          /\ Calls(1, Visit(Top.node.value))
          /\ UNCHANGED <<envs, touched>>
       \/ /\ Top.pc = 1 /\ Top.node.name.type = "Identifier"
          /\ LET r == assign(envs, environment, Top.node.name.name, ret)
             IN  IF r.ok
                 THEN /\ envs' = r.envs
                      /\ Touch(AssignedScope(envs, environment,
                                             Top.node.name.name),
                               Top.node.name.name)
                      /\ Returns(ret)
                 ELSE /\ Raises(Exc("NameError", TRUE, "Assignment"))
                      /\ UNCHANGED <<envs, touched>>
       \/ /\ Top.pc = 1
          /\ Top.node.name.type \notin {"Identifier", "Attribute", "Subscript"}
          /\ Raises(Exc("SyntaxError", TRUE, "Assignment"))
          /\ UNCHANGED <<envs, touched>>
    /\ UNCHANGED <<session, environment, output, snapshot, calls_history>>

\* visit_Identifier: self.environment.get(name)
visit_Identifier ==
    /\ Running /\ IsVisit("Identifier")
    /\ LET r == get(envs, environment, Top.node.name)
       IN  IF r.ok THEN Returns(r.value)
           ELSE Raises(Exc("NameError", TRUE, "Identifier"))
    /\ UNCHANGED others

\* visit_IntegerLiteral, visit_StringLiteral, visit_BooleanLiteral (which
\* turns the bool into "zhen" / "jia") and visit_NoneLiteral
visit_Literal ==
    /\ Running /\ Top.f = "visit"
    /\ Top.node.type \in {"IntegerLiteral", "StringLiteral",
                          "BooleanLiteral", "NoneLiteral"}
    /\ Returns(CASE Top.node.type = "IntegerLiteral" -> IntV(Top.node.value)
                 [] Top.node.type = "StringLiteral" -> StrV(Top.node.value)
                 [] Top.node.type = "BooleanLiteral" -> Bool(Top.node.value)
                 [] Top.node.type = "NoneLiteral" -> NoneV)
    /\ UNCHANGED others

\* visit_List: the elements left to right; pc counts the evaluated ones
visit_List ==
    /\ Running /\ IsVisit("List")
    /\ LET done == IF Top.pc = 0 THEN <<>> ELSE Append(Top.vals, ret)
       IN  IF Len(done) < Len(Top.node.elements)
           THEN CallsWith([Top EXCEPT !.pc = Top.pc + 1, !.vals = done],
                          Visit(Top.node.elements[Len(done) + 1]))
           ELSE Returns(ListV(done))
    /\ UNCHANGED others

\* XUANClass.find_method: the function, or NoneV
RECURSIVE find_method(_, _)
find_method(self, name) ==
    IF name \in DOMAIN self.v.methods THEN self.v.methods[name]
    ELSE IF self.v.superclass.t = "class"
    THEN find_method(self.v.superclass, name)
    ELSE NoneV

\* XUANInstance.get: a field, else the method found, bound to the instance.
\* XUANFunction has no attribute bind: the host raises AttributeError there.
XUANInstance_get(self, name) ==
    IF name \in DOMAIN self.v.fields THEN Ok(self.v.fields[name])
    ELSE IF find_method(self.v.klass, name).t = "function"
    THEN Fail(Exc("builtins.AttributeError", FALSE, "Attribute"))
    ELSE Fail(Exc("AttributeError", TRUE, "Attribute"))

visit_Attribute ==
    /\ Running /\ IsVisit("Attribute")
    /\ \/ /\ Top.pc = 0
          /\ Calls(1, Visit(Top.node.value))
       \/ /\ Top.pc = 1
          /\ IF ret.t = "instance"
             THEN LET r == XUANInstance_get(ret, Top.node.attr)
                  IN  IF r.ok THEN Returns(r.value) ELSE Raises(r.exc)
             ELSE Raises(Exc("TypeError", TRUE, "Attribute"))
    /\ UNCHANGED others

\* a test that takes every base for a class
is_class_always(value) == TRUE

\* isinstance(superclass, XUANClass)
is_class(value) == value.t = "class"

\* the dictionary of the FunctionDefinition statements of a class body, each
\* closed over environment; a later definition of a name replaces an earlier
RECURSIVE Methods(_, _)
Methods(statements, env) ==
    IF statements = <<>> THEN <<>>
    ELSE LET n == Len(statements)
             before == Methods(SubSeq(statements, 1, n - 1), env)
             method == statements[n]
         IN  IF method.type = "FunctionDefinition"
             THEN [m \in DOMAIN before \cup {method.name} |->
                     IF m = method.name
                     THEN XUANFunction(method, env,
                                       method.name = "chushihua")
                     ELSE before[m]]
             ELSE before

\* visit_ClassDefinition leaving the child scope installed: without
\* self.environment = self.environment.enclosing
ClassDefine_without_restore(superclass) ==
    LET stmt == Top.node
        defined == define(envs, environment, stmt.name, NoneV)
        scoped == IF superclass.t = "class"
                  THEN Append(defined,
                              [Environment(environment) EXCEPT
                                   !.values["fulei"] = superclass])
                  ELSE defined
        closure == IF superclass.t = "class" THEN Len(envs) + 1
                   ELSE environment
        klass == XUANClass(stmt.name, superclass,
                           Methods(stmt.body.statements, closure))
    IN  /\ superclass.t = "class" => Len(envs) < MaxEnvs
        /\ envs' = assign(scoped, closure, stmt.name, klass).envs
        /\ environment' = closure
        /\ Touch(environment, stmt.name)
        /\ Returns(NoneV)

\* everything visit_ClassDefinition does once the base is known: the name is
\* defined as none, the methods close over a scope holding "fulei" when there
\* is a superclass, which is installed as the current environment while the
\* methods are built and left through its enclosing link, and the name is
\* assigned the class
ClassDefine(superclass) ==
    LET stmt == Top.node
        defined == define(envs, environment, stmt.name, NoneV)
        scoped == IF superclass.t = "class"
                  THEN Append(defined,
                              [Environment(environment) EXCEPT
                                   !.values["fulei"] = superclass])
                  ELSE defined
        closure == IF superclass.t = "class" THEN Len(envs) + 1
                   ELSE environment
        klass == XUANClass(stmt.name, superclass,
                           Methods(stmt.body.statements, closure))
        restored == IF superclass.t = "class" THEN scoped[closure].enclosing
                    ELSE environment
    IN  /\ superclass.t = "class" => Len(envs) < MaxEnvs
        /\ envs' = assign(scoped, restored, stmt.name, klass).envs
        /\ environment' = restored
        /\ Touch(environment, stmt.name)
        /\ Returns(NoneV)

visit_ClassDefinition ==
    /\ Running /\ IsVisit("ClassDefinition")
    /\ \/ /\ Top.pc = 0 /\ Len(Top.node.bases) > 0
          /\ Calls(1, Visit(Top.node.bases[1]))
          /\ UNCHANGED <<envs, environment, touched>>
       \/ /\ Top.pc = 0 /\ Len(Top.node.bases) = 0
          /\ ClassDefine(NoneV)
       \/ /\ Top.pc = 1
          /\ IF is_class(ret) THEN ClassDefine(ret)
             ELSE Raises(Exc("TypeError", TRUE, "ClassDefinition"))
                  /\ UNCHANGED <<envs, environment, touched>>
    /\ UNCHANGED <<session, output, snapshot, calls_history>>

\* an evaluation that never stops at the left operand
short_circuits_never(op, left) == FALSE

\* the left operand already determines the result
short_circuits(op, left) ==
    \/ op = "and" /\ ~is_truthy(left)
    \/ op = "or" /\ is_truthy(left)

visit_LogicalOperation ==
    /\ Running /\ IsVisit("LogicalOperation")
    /\ \/ /\ Top.pc = 0
          /\ Calls(1, Visit(Top.node.left))
       \/ /\ Top.pc = 1
          /\ IF Top.node.operator \notin {"and", "or"}
             THEN Raises(Exc("SyntaxError", TRUE, "LogicalOperation"))
             ELSE IF short_circuits(Top.node.operator, ret)
             THEN Returns(Bool(Top.node.operator = "or"))
             ELSE CallsWith([Top EXCEPT !.pc = 2, !.vals = <<ret>>],
                            Visit(Top.node.right))
       \/ /\ Top.pc = 2
          /\ Returns(Bool(is_truthy(ret)))
    /\ UNCHANGED others

\* obj[index] of the host on the values of the model: a list indexed by an
\* integer, from either end; anything else that is not a sequence or a mapping
\* cannot be subscripted
HostIndexError == Exc("builtins.IndexError", FALSE, "Subscript")
getitem(obj, index) ==
    IF obj.t = "list" /\ index.t = "int"
    THEN LET n == Len(obj.v)
         IN  IF index.v \in 0 .. n - 1 THEN Ok(obj.v[index.v + 1])
             ELSE IF index.v \in (0 - n) .. (0 - 1)
             THEN Ok(obj.v[n + index.v + 1])
             ELSE Fail(HostIndexError)
    ELSE Fail([HostTypeError EXCEPT !.origin = "Subscript"])

\* the handler names IndexError and KeyError, which `from .exceptions import *`
\* has rebound to the language's classes: a host IndexError passes through it
visit_Subscript ==
    /\ Running /\ IsVisit("Subscript")
    /\ \/ /\ Top.pc = 0
          /\ Calls(1, Visit(Top.node.value))
       \/ /\ Top.pc = 1
          /\ CallsWith([Top EXCEPT !.pc = 2, !.vals = <<ret>>],
                       Visit(Top.node.index))
       \/ /\ Top.pc = 2
          /\ LET r == getitem(Top.vals[1], ret)
             IN  IF r.ok THEN Returns(r.value)
                 ELSE IF r.exc.xuan /\ r.exc.cls \in {"IndexError", "KeyError"}
                 THEN Raises(Exc("IndexError", TRUE, "Subscript"))
                 ELSE Raises(r.exc)
    /\ UNCHANGED others

\* callable(callee): XUANFunction defines __call__, the built-ins are host
\* callables; nothing else in the model is
callable(callee) == callee.t \in {"function", "builtin"}

\* callee(*args) for the two built-ins the programs of the model call:
\* print (shuchu) and len (changdu)
BuiltinCall(name, args) ==
    IF name = "shuchu" THEN Ok(NoneV)
    ELSE IF Len(args) = 1 /\ args[1].t = "list" THEN Ok(IntV(Len(args[1].v)))
    ELSE Fail(Exc("builtins.TypeError", FALSE, "FunctionCall"))

\* visit_FunctionCall: callee, then the arguments left to right, then the
\* call.  vals[1] is the callee, the rest the arguments; pc -1 waits for
\* XUANFunction.__call__ to return.
visit_FunctionCall ==
    /\ Running /\ IsVisit("FunctionCall")
    /\ \/ /\ Top.pc = 0
          /\ Calls(1, Visit(Top.node.function))
          /\ UNCHANGED output
       \/ /\ Top.pc >= 1
          /\ LET done == Append(Top.vals, ret)
                 callee == done[1]
                 args == Tail(done)
             IN  IF Len(args) < Len(Top.node.args)
                 THEN /\ CallsWith([Top EXCEPT !.pc = Top.pc + 1,
                                               !.vals = done],
                                   Visit(Top.node.args[Len(args) + 1]))
                      /\ UNCHANGED output
                 ELSE IF ~callable(callee)
                 THEN /\ Raises(Exc("TypeError", TRUE, "FunctionCall"))
                      /\ UNCHANGED output
                 ELSE IF callee.t = "builtin"
                 THEN /\ callee.v \in {"shuchu", "changdu"}
                      /\ LET r == BuiltinCall(callee.v, args)
                         IN  IF r.ok THEN Returns(r.value) ELSE Raises(r.exc)
                      /\ output' = IF callee.v = "shuchu"
                                   THEN Append(output, args) ELSE output
                 ELSE /\ CallsWith([Top EXCEPT !.pc = -1, !.vals = done],
                                   CallFrame(callee.v, args))
                      /\ UNCHANGED output
       \/ /\ Top.pc = -1
          /\ Returns(ret)
          /\ UNCHANGED output
    /\ UNCHANGED <<session, store, history>>

\* the node types Interpreter has a visit_ method for
Handled == {"Program", "Block", "ExpressionStatement", "FunctionDefinition",
            "ClassDefinition", "Return", "If", "While", "For", "Break",
            "Continue", "Pass", "Try", "Import", "FromImport",
            "BinaryOperation", "UnaryOperation", "LogicalOperation",
            "FunctionCall", "Attribute", "Assignment", "List", "Dict",
            "Subscript", "VariableDeclaration", "Identifier",
            "IntegerLiteral", "FloatLiteral", "StringLiteral",
            "BooleanLiteral", "NoneLiteral"}

\* ASTNode.accept falls back to visit_default, which raises
\* NotImplementedError
visit_default ==
    /\ Running /\ Top.f = "visit" /\ Top.node.type \notin Handled
    /\ Raises(Exc("NotImplementedError", TRUE, Top.node.type))
    /\ UNCHANGED others

\* an exception leaves an activation that has no try statement around the
\* call it made
Propagate ==
    /\ Unwinding /\ Top.f = "visit" /\ Top.node.type # "Try"
    /\ Raises(sig)
    /\ UNCHANGED others

(***************************************************************************)
(* The programs the model runs.  They are built as the parser builds them  *)
(* (a compound statement owns Block nodes, `name = value` goes through     *)
(* parse_assignment); an Assignment node is a shape only the evaluator     *)
(* knows.                                                                  *)
(***************************************************************************)
\* name = value, as the parser builds it
Let(name, value) ==
    ExpressionStatement(parse_assignment(Identifier(name), value))
\* shuchu(text)
Say(text) ==
    ExpressionStatement(FunctionCall(Identifier("shuchu"),
                                     <<StringLiteral(text)>>))
\* 1 / 0
DivByZero == BinaryOperation(IntegerLiteral(1), "/", IntegerLiteral(0))
\* callee(args)
CallOf(callee, args) == FunctionCall(Identifier(callee), args)
\* a * 10 + b
Digits(a, b) ==
    BinaryOperation(BinaryOperation(a, "*", IntegerLiteral(10)), "+", b)

\* the statement under test
Cores == {"return", "return_none", "break", "continue", "error", "pass"}
Core(c) ==
    CASE c = "return" -> Return(IntegerLiteral(7))
      [] c = "return_none" -> Return(NoNode)
      [] c = "break" -> Break
      [] c = "continue" -> Continue
      [] c = "error" -> ExpressionStatement(DivByZero)
      [] c = "pass" -> Pass

\* the compound statements put around it
Wrappers == {"if", "while", "for", "try_except", "try_finally",
             "try_except_finally", "except", "finally"}
Handler(stmt) == <<<<NoNode, "", Block(<<stmt>>)>>>>
Wrap1(w, stmt) ==
    CASE w = "if" -> If(BooleanLiteral(TRUE), Block(<<stmt>>), NoNode)
      [] w = "while" -> While(BooleanLiteral(TRUE),
                              Block(<<Say("loop"), stmt, Say("rest")>>))
      [] w = "for" -> For(Identifier("i"),
                          List(<<IntegerLiteral(1), IntegerLiteral(2)>>),
                          Block(<<Say("loop"), stmt, Say("rest")>>))
      [] w = "try_except" ->
            Try(Block(<<stmt>>), Handler(Say("handler")), NoNode)
      [] w = "try_finally" ->
            Try(Block(<<stmt>>), <<>>, Block(<<Say("finally")>>))
      [] w = "try_except_finally" ->
            Try(Block(<<stmt>>),
                <<<<Identifier("e"), "e", Block(<<Say("handler")>>)>>>>,
                Block(<<Say("finally")>>))
      [] w = "except" ->
            Try(Block(<<ExpressionStatement(Identifier("y"))>>),
                Handler(stmt), NoNode)
      [] w = "finally" -> Try(Block(<<Pass>>), <<>>, Block(<<stmt>>))

RECURSIVE Wrap(_, _)
Wrap(ws, stmt) ==
    IF ws = <<>> THEN stmt ELSE Wrap1(Head(ws), Wrap(Tail(ws), stmt))

RECURSIVE SeqsUpTo(_, _)
SeqsUpTo(S, n) ==
    IF n = 0 THEN {<<>>}
    ELSE SeqsUpTo(S, n - 1)
         \cup {<<w>> \o ws : w \in S, ws \in SeqsUpTo(S, n - 1)}

\* the statement under test inside a function:
\*   f(): <wrapped core>; shuchu("after")
\*   r = f(); shuchu("end")
InFunction(ws, c) ==
    Program(<<FunctionDefinition("f", <<>>,
                  Block(<<Wrap(ws, Core(c)), Say("after")>>)),
              Let("r", CallOf("f", <<>>)),
              Say("end")>>)

\* the statement under test at the top level
AtTopLevel(ws, c) == Program(<<Wrap(ws, Core(c)), Say("after")>>)

\* x = v1; f(a): return x * 10 + a; g(x): return f(x); r = g(v2)
\* f is defined where x is v1 and called from a scope where x is v2
Shadowing(v1, v2) ==
    Program(<<Let("x", IntegerLiteral(v1)),
              FunctionDefinition("f", <<"a">>,
                  Block(<<Return(Digits(Identifier("x"),
                                        Identifier("a")))>>)),
              FunctionDefinition("g", <<"x">>,
                  Block(<<Return(CallOf("f", <<Identifier("x")>>))>>)),
              Let("r", CallOf("g", <<IntegerLiteral(v2)>>))>>)

\* h(a, y): g(): return a * 10 + y; return g
\* x = h(v1, 0); y = h(v2, 1, 5); r = [x(), y()]
\* two calls of h, each with its own bindings; the second is given one
\* argument too many
Counters(v1, v2) ==
    Program(<<FunctionDefinition("h", <<"a", "y">>,
                  Block(<<FunctionDefinition("g", <<>>,
                              Block(<<Return(Digits(Identifier("a"),
                                                    Identifier("y")))>>)),
                          Return(Identifier("g"))>>)),
              Let("x", CallOf("h", <<IntegerLiteral(v1),
                                     IntegerLiteral(0)>>)),
              Let("y", CallOf("h", <<IntegerLiteral(v2), IntegerLiteral(1),
                                     IntegerLiteral(5)>>)),
              Let("r", List(<<CallOf("x", <<>>), CallOf("y", <<>>)>>))>>)

\* x = v1
\* f(a): if zhen: a = v2;  for i in [v2]: if zhen: i = 0; x = i;  return [a, x]
\* r = f(v1)
\* while x < 3: x = x + 1          (the body rebinds x in its own block)
Rebinding(v1, v2) ==
    Program(<<Let("x", IntegerLiteral(v1)),
              FunctionDefinition("f", <<"a">>,
                  Block(<<If(BooleanLiteral(TRUE),
                             Block(<<Let("a", IntegerLiteral(v2))>>),
                             NoNode),
                          For(Identifier("i"), List(<<IntegerLiteral(v2)>>),
                              Block(<<If(BooleanLiteral(TRUE),
                                         Block(<<Let("i",
                                                 IntegerLiteral(0))>>),
                                         NoNode),
                                      Let("x", Identifier("i"))>>)),
                          Return(List(<<Identifier("a"),
                                        Identifier("x")>>))>>)),
              Let("r", CallOf("f", <<IntegerLiteral(v1)>>)),
              While(BinaryOperation(Identifier("x"), "<", IntegerLiteral(3)),
                    Block(<<Let("x", BinaryOperation(Identifier("x"), "+",
                                                     IntegerLiteral(1)))>>)),
              Say("after")>>)

\* f(n): if n <= 1: return 1;  return n * f(n - 1)
\* r = f(v)
Factorial(v) ==
    Program(<<FunctionDefinition("f", <<"n">>,
                  Block(<<If(BinaryOperation(Identifier("n"), "<=",
                                             IntegerLiteral(1)),
                             Block(<<Return(IntegerLiteral(1))>>), NoNode),
                          Return(BinaryOperation(Identifier("n"), "*",
                              CallOf("f", <<BinaryOperation(Identifier("n"),
                                                "-", IntegerLiteral(1))>>)))
                        >>)),
              Let("r", CallOf("f", <<IntegerLiteral(v)>>))>>)

\* the indexes the list x = [1, 2, 3] is read at
Indexes == {0, 1, 2, 3, 9}
\* x = [1, 2, 3]; x[i]  as parsed, or with the Subscript node the evaluator
\* has a method for
Subscripting(kind, i) ==
    Program(<<Let("x", List(<<IntegerLiteral(1), IntegerLiteral(2),
                              IntegerLiteral(3)>>)),
              ExpressionStatement(
                  IF kind = "parsed"
                  THEN parse_call_or_access(Identifier("x"), "[",
                                            IntegerLiteral(i))
                  ELSE Subscript(Identifier("x"), IntegerLiteral(i)))>>)

\* the expressions whose value is tested as a condition
Condition(a) ==
    CASE a = 0 -> NoneLiteral
      [] a = 1 -> IntegerLiteral(0)
      [] a = 2 -> BinaryOperation(IntegerLiteral(0), "/", IntegerLiteral(1))
      [] a = 3 -> StringLiteral("")
      [] a = 4 -> List(<<>>)
      [] a = 5 -> IntegerLiteral(1)
      [] a = 6 -> BinaryOperation(IntegerLiteral(1), "/", IntegerLiteral(2))
      [] a = 7 -> StringLiteral("1")
      [] a = 8 -> StringLiteral("zhen")
      [] a = 9 -> StringLiteral("jia")
      [] a = 10 -> List(<<IntegerLiteral(0)>>)
      [] a = 11 -> Identifier("f")
Conditions == 0 .. 11
\* def f(): pass;  if <condition>: shuchu("then")  else: shuchu("else")
Truthiness(a) ==
    Program(<<FunctionDefinition("f", <<>>, Block(<<Pass>>)),
              If(Condition(a), Block(<<Say("then")>>),
                 Block(<<Say("else")>>))>>)

\* def f(): shuchu("left"); return <a>
\* def g(): shuchu("right"); return <b>
\* f() op g()
Logical(a, op, b) ==
    Program(<<FunctionDefinition("f", <<>>,
                  Block(<<Say("left"), Return(Condition(a))>>)),
              FunctionDefinition("g", <<>>,
                  Block(<<Say("right"), Return(Condition(b))>>)),
              ExpressionStatement(
                  LogicalOperation(CallOf("f", <<>>), op, CallOf("g", <<>>)))
            >>)

\* class B: def m(zishen): return 7
\* class D(B): pass
ClassesBD ==
    Program(<<ClassDefinition("B", <<>>,
                  Block(<<FunctionDefinition("m", <<"zishen">>,
                              Block(<<Return(IntegerLiteral(7))>>))>>)),
              ClassDefinition("D", <<Identifier("B")>>, Block(<<Pass>>))>>)
\* x = D()
Instantiate == Program(<<Let("x", CallOf("D", <<>>))>>)
\* r = x.m() as parsed, with the Attribute node the evaluator has a method
\* for, or r = D.m() with that node
MethodCall(kind) ==
    Program(<<Let("r", FunctionCall(
                  CASE kind = "parsed" ->
                           parse_call_or_access(Identifier("x"), ".", "m")
                    [] kind = "Attribute" -> Attribute(Identifier("x"), "m")
                    [] kind = "on_class" -> Attribute(Identifier("D"), "m"),
                  <<>>))>>)

\* def f(): pass;  [D = 1];  then, in a unit of its own,
\* class D(<base>): def m(zishen): pass   at top level or in the body of g
Bases(b) ==
    Program(<<FunctionDefinition("f", <<>>, Block(<<Pass>>))>>
            \o (IF b = 1 THEN <<Let("D", IntegerLiteral(1))>> ELSE <<>>))
ClassWithBase(a, kind) ==
    LET class == ClassDefinition("D", <<Condition(a)>>,
                     Block(<<FunctionDefinition("m", <<"zishen">>,
                                 Block(<<Pass>>))>>))
    IN  IF kind = "top" THEN Program(<<class>>)
        ELSE Program(<<FunctionDefinition("g", <<>>, Block(<<class>>)),
                       ExpressionStatement(CallOf("g", <<>>))>>)

\* a top-level statement that fails, by the way it fails
Failures == {"zero", "name", "type", "host", "raise", "rebind",
             "assign_unbound", "call", "call_assign"}
Failure(k) ==
    CASE k = "zero" -> ExpressionStatement(DivByZero)
      [] k = "name" -> ExpressionStatement(Identifier("a"))
      [] k = "type" -> ExpressionStatement(CallOf("x", <<>>))
      [] k = "host" ->
            ExpressionStatement(BinaryOperation(IntegerLiteral(1), "+",
                                                StringLiteral("s")))
      [] k = "raise" -> Raise(NoNode)
      \* (x = 2) + 1 / 0
      [] k = "rebind" ->
            ExpressionStatement(BinaryOperation(
                parse_assignment(Identifier("x"), IntegerLiteral(2)),
                "+", DivByZero))
      [] k = "assign_unbound" ->
            ExpressionStatement(Assignment(Identifier("a"),
                                           IntegerLiteral(1)))
      [] k = "call" -> ExpressionStatement(CallOf("f", <<>>))
      [] k = "call_assign" -> ExpressionStatement(CallOf("g", <<>>))

\* the first unit of a session:
\*   x = v
\*   f(): y = 3; if zhen: 1 / 0
\*   g(): x = 9 (an Assignment node); 1 / 0
Definitions(v) ==
    Program(<<Let("x", IntegerLiteral(v)),
              FunctionDefinition("f", <<>>,
                  Block(<<Let("y", IntegerLiteral(3)),
                          If(BooleanLiteral(TRUE),
                             Block(<<ExpressionStatement(DivByZero)>>),
                             NoNode)>>)),
              FunctionDefinition("g", <<>>,
                  Block(<<ExpressionStatement(Assignment(Identifier("x"),
                              IntegerLiteral(9))),
                          ExpressionStatement(DivByZero)>>))>>)

\* the second unit: the failing statement as statement pos (after y = 5
\* when pos is 2), then statements that must not run
FailingUnit(k, pos) ==
    Program(SubSeq(<<Let("y", IntegerLiteral(5))>>, 1, pos - 1)
            \o <<Failure(k), Let("x", IntegerLiteral(0)), Say("next")>>)

\* the third unit reads what the session has bound
Readback == Program(<<ExpressionStatement(Identifier("x"))>>)

\* a unit whose last statement is the expression a op b, after x = 4
Operators == {"+", "-", "*", "/", "//", "%", "**", "==", "!=", "<", "<=",
              ">", ">=", "and", "or", "chu", "zhengchu", "in"}
Operand(a) ==
    CASE a = 0 -> IntegerLiteral(0)
      [] a = 1 -> IntegerLiteral(1)
      [] a = 2 -> IntegerLiteral(2)
      [] a = 3 -> StringLiteral("1")
      [] a = 4 -> NoneLiteral
      [] a = 5 -> Identifier("x")
      [] a = 6 -> List(<<>>)
Operands == 0 .. 6
Expression(a, op, b) ==
    Program(<<Let("x", IntegerLiteral(4)),
              ExpressionStatement(BinaryOperation(Operand(a), op,
                                                  Operand(b)))>>)

\* a unit whose last statement is not an expression statement
NoValue(c) == Program(<<ExpressionStatement(IntegerLiteral(1)), Core(c)>>)

(***************************************************************************)
(* The evaluator: one Interpreter, fed the units of a session in turn.     *)
(***************************************************************************)
Input(family, ws, core, a, b, kind, op) ==
    [family |-> family, ws |-> ws, core |-> core, a |-> a, b |-> b,
     kind |-> kind, op |-> op]

Start(in, session_units) ==
    /\ input = in
    /\ units = session_units
    /\ unit = 0
    /\ stack = <<ReplFrame>>
    /\ envs = <<InterpreterInit>>
    /\ environment = globals
    /\ ret = NoneV
    /\ sig = NoSig
    /\ output = <<>>
    /\ outcome = NoOutcome
    /\ snapshot = InterpreterInit.values
    /\ touched = {}
    /\ last_call = NoLastCall
    /\ last_try = NoLastTry
    /\ expr_value = NoneV
    /\ call = NoCall

Inputs == {1, 2}

Init ==
    \/ \E ws \in SeqsUpTo(Wrappers, MaxNest), c \in Cores :
          \/ Start(Input("InFunction", ws, c, 0, 0, "", ""),
                   <<InFunction(ws, c)>>)
          \/ Start(Input("AtTopLevel", ws, c, 0, 0, "", ""),
                   <<AtTopLevel(ws, c)>>)
    \/ \E v1 \in Inputs, v2 \in Inputs :
          \/ Start(Input("Shadowing", <<>>, "", v1, v2, "", ""),
                   <<Shadowing(v1, v2)>>)
          \/ Start(Input("Counters", <<>>, "", v1, v2, "", ""),
                   <<Counters(v1, v2)>>)
          \/ Start(Input("Rebinding", <<>>, "", v1, v2, "", ""),
                   <<Rebinding(v1, v2)>>)
    \/ \E v \in Inputs, k \in Failures, pos \in {1, 2} :
          Start(Input("Failing", <<>>, "", v, pos, k, ""),
                <<Definitions(v), FailingUnit(k, pos), Readback>>)
    \/ \E a \in Operands, b \in Operands, op \in Operators :
          Start(Input("Expression", <<>>, "", a, b, "", op),
                <<Expression(a, op, b)>>)
    \/ \E c \in Cores :
          Start(Input("NoValue", <<>>, c, 0, 0, "", ""), <<NoValue(c)>>)
    \/ \E v \in 0 .. MaxArg :
          Start(Input("Factorial", <<>>, "", v, 0, "", ""), <<Factorial(v)>>)
    \/ \E a \in Conditions :
          Start(Input("Truthiness", <<>>, "", a, 0, "", ""), <<Truthiness(a)>>)
    \/ \E a \in Conditions, b \in {0, 5}, op \in {"and", "or"} :
          Start(Input("Logical", <<>>, "", a, b, "", op), <<Logical(a, op, b)>>)
    \/ \E kind \in {"parsed", "Attribute", "on_class"} :
          Start(Input("Inheritance", <<>>, "", 0, 0, kind, ""),
                <<ClassesBD, Instantiate, MethodCall(kind)>>)
    \/ \E a \in Conditions, b \in {0, 1}, kind \in {"top", "body"} :
          Start(Input("ClassBase", <<>>, "", a, b, kind, ""),
                <<Bases(b), ClassWithBase(a, kind)>>)
    \/ \E i \in Indexes, kind \in {"parsed", "Subscript"} :
          Start(Input("Subscripting", <<>>, "", i, 0, kind, ""),
                <<Subscripting(kind, i)>>)

Next ==
    \/ run_repl
    \/ interpret
    \/ execute_block
    \/ XUANFunction_call
    \/ visit_Block
    \/ visit_ExpressionStatement
    \/ visit_FunctionDefinition
    \/ visit_Return
    \/ visit_If
    \/ visit_While
    \/ visit_For
    \/ visit_Break
    \/ visit_Continue
    \/ visit_Pass
    \/ visit_Try
    \/ visit_BinaryOperation
    \/ visit_VariableDeclaration
    \/ visit_Assignment
    \/ visit_Identifier
    \/ visit_Literal
    \/ visit_List
    \/ visit_LogicalOperation
    \/ visit_ClassDefinition
    \/ visit_Attribute
    \/ visit_Subscript
    \/ visit_FunctionCall
    \/ visit_default
    \/ Propagate

Spec == Init /\ [][Next]_vars

\* the session is over: run_repl has left its loop
Finished == stack = <<>>
\* run_repl is between two units, after unit number n
After(n) == Len(stack) = 1 /\ Top.pc = 0 /\ unit = n
\* the value bound to name in globals
Global(name) == envs[globals].values[name]
\* equality of two runtime values
SameValue(a, b) == a.t = b.t /\ a = b

(***************************************************************************)
(* Environment on its own: a chain of scopes, scope k enclosed by scope    *)
(* k - 1, each binding any of x and y, and one method applied to any scope *)
(* of the chain.  Scope k binds a name to the integer k.                   *)
(***************************************************************************)
ChainNames == {"x", "y"}
Scope(k, bound) ==
    [values |-> [n \in Names |-> IF n \in bound THEN IntV(k) ELSE Unbound],
     enclosing |-> k - 1]
Chains ==
    UNION {{[k \in 1 .. n |-> Scope(k, b[k])] :
               b \in [1 .. n -> SUBSET ChainNames]} : n \in 1 .. MaxChain}
\* the value the method is given
Fresh == IntV(0)

InitEnv ==
    /\ input = Input("Environment", <<>>, "", 0, 0, "", "")
    /\ units = <<>>
    /\ unit = 0
    /\ stack = <<>>
    /\ envs \in Chains
    /\ environment \in 1 .. Len(envs)
    /\ ret = NoneV
    /\ sig = NoSig
    /\ output = <<>>
    /\ outcome = NoOutcome
    /\ snapshot = InterpreterInit.values
    /\ touched = {}
    /\ last_call = NoLastCall
    /\ last_try = NoLastTry
    /\ expr_value = NoneV
    /\ call = NoCall

untouched == <<input, units, unit, stack, environment, output, outcome,
               snapshot, touched, last_call, last_try, expr_value>>

\* envs[environment].get(name)
Env_get ==
    /\ call.op = ""
    /\ \E name \in ChainNames :
          LET r == get(envs, environment, name)
          IN  /\ call' = [op |-> "get", name |-> name, value |-> NoneV,
                          at |-> environment, before |-> envs]
              /\ IF r.ok THEN ret' = r.value /\ sig' = NoSig
                 ELSE ret' = ret /\ sig' = Exc("NameError", TRUE, "get")
    /\ UNCHANGED <<envs, untouched>>

\* envs[environment].assign(name, Fresh)
Env_assign ==
    /\ call.op = ""
    /\ \E name \in ChainNames :
          LET r == assign(envs, environment, name, Fresh)
          IN  /\ call' = [op |-> "assign", name |-> name, value |-> Fresh,
                          at |-> environment, before |-> envs]
              /\ envs' = r.envs
              /\ sig' = IF r.ok THEN NoSig
                        ELSE Exc("NameError", TRUE, "assign")
    /\ UNCHANGED <<ret, untouched>>

\* envs[environment].define(name, Fresh)
Env_define ==
    /\ call.op = ""
    /\ \E name \in ChainNames :
          /\ call' = [op |-> "define", name |-> name, value |-> Fresh,
                      at |-> environment, before |-> envs]
          /\ envs' = define(envs, environment, name, Fresh)
    /\ UNCHANGED <<ret, sig, untouched>>

NextEnv ==
    \/ Env_get
    \/ Env_assign
    \/ Env_define

SpecEnv == InitEnv /\ [][NextEnv]_vars

(***************************************************************************)
(* The pipeline of main.run on the tokens of an if statement: parse, then  *)
(* interpret.  The lexer is not part of the model: the tokens are given.   *)
(***************************************************************************)
\* the tokens of the statement of branch k: return k, or the expression k
StatementTokens(core, k) ==
    IF core = "return" THEN <<Token("RETURN", 0), Token("INTEGER", k)>>
    ELSE <<Token("INTEGER", k)>>
\* the tokens of a block holding stmt: on the line of the header after a
\* colon, or indented on the next line, after a colon or without one
BlockTokens(form, stmt) ==
    CASE form = "inline" -> <<Token("COLON", 0)>> \o stmt
      [] form = "indented" ->
            <<Token("NEWLINE", 0), Token("INDENT", 0)>> \o stmt
            \o <<Token("NEWLINE", 0), Token("DEDENT", 0)>>
      [] form = "colon_indented" ->
            <<Token("COLON", 0), Token("NEWLINE", 0), Token("INDENT", 0)>>
            \o stmt \o <<Token("NEWLINE", 0), Token("DEDENT", 0)>>
\* if c1 B1 elif c2 B2 ... from branch k on
RECURSIVE BranchTokens(_, _, _, _)
BranchTokens(form, conds, core, k) ==
    IF k > Len(conds) THEN <<>>
    ELSE <<Token(IF k = 1 THEN "IF" ELSE "ELIF", 0), Token(conds[k], 0)>>
         \o BlockTokens(form, StatementTokens(core, k))
         \o BranchTokens(form, conds, core, k + 1)
\* the statement of branch k is k; that of the else block is Len(conds) + 1
IfSource(form, conds, has_else, core) ==
    BranchTokens(form, conds, core, 1)
    \o (IF has_else
        THEN <<Token("ELSE", 0)>>
             \o BlockTokens(form, StatementTokens(core, Len(conds) + 1))
        ELSE <<>>)
    \o <<Token("EOF", 0)>>
Forms == {"inline", "indented", "colon_indented"}
ConditionTokens == {"TRUE", "FALSE"}
Source == IfSource(input.kind, input.ws, input.b = 1, input.core)

RunFrame == [f |-> "run", pc |-> 0]

InitParse ==
    /\ \E form \in Forms, core \in {"return", "expr"}, has_else \in {0, 1},
          conds \in SeqsUpTo(ConditionTokens, MaxElif + 1) :
          /\ Len(conds) >= 1
          /\ input = Input("IfSource", conds, core, Len(conds) - 1, has_else,
                           form, "")
    /\ units = <<>>
    /\ unit = 0
    /\ stack = <<RunFrame>>
    /\ envs = <<InterpreterInit>>
    /\ environment = globals
    /\ ret = NoneV
    /\ sig = NoSig
    /\ output = <<>>
    /\ outcome = NoOutcome
    /\ snapshot = InterpreterInit.values
    /\ touched = {}
    /\ last_call = NoLastCall
    /\ last_try = NoLastTry
    /\ expr_value = NoneV
    /\ call = NoCall

\* program = parser.parse(); return interpreter.interpret(program): an error
\* of either leaves run
run ==
    /\ Len(stack) > 0 /\ Top.f = "run"
    /\ \/ /\ Top.pc = 0
          /\ \E program \in {parse(Parser(Source))} :
                 IF program.ok
                 THEN /\ units' = <<program.node>>
                      /\ unit' = 1
                      /\ Calls(1, InterpretFrame(program.node))
                      /\ UNCHANGED outcome
                 ELSE /\ Raises(Exc("SyntaxError", TRUE, "Parser"))
                      /\ outcome' = [NoOutcome EXCEPT !.status = "raised",
                                        !.cls = "SyntaxError",
                                        !.origin = "Parser"]
                      /\ UNCHANGED <<units, unit>>
          /\ UNCHANGED <<input, store, output, history>>
       \/ /\ Top.pc = 1 /\ sig.t = "none"
          /\ outcome' = [NoOutcome EXCEPT !.status = "returned", !.value = ret]
          /\ stack' = Below
          /\ UNCHANGED <<ret, sig, input, units, unit, store, output, history>>
       \/ /\ Top.pc = 1 /\ sig.t = "exc"
          /\ outcome' = [NoOutcome EXCEPT !.status = "raised",
                            !.cls = sig.cls, !.origin = sig.origin]
          /\ stack' = Below
          /\ UNCHANGED <<ret, sig, input, units, unit, store, output, history>>

NextParse ==
    \/ run
    \/ interpret
    \/ execute_block
    \/ visit_Block
    \/ visit_ExpressionStatement
    \/ visit_If
    \/ visit_Return
    \/ visit_Literal
    \/ Propagate

SpecParse == InitParse /\ [][NextParse]_vars

(***************************************************************************)
(* The lexer (src/xuan/lexer.py).  A text is a sequence of characters; a   *)
(* CJK character is written by its romanisation, so that the characters of *)
(* a keyword concatenate to the name the evaluator knows it by (zheng, chu *)
(* give zhengchu).  A Lexer L holds text, pos (counted from 0, as in the   *)
(* code), line, column and indent_stack; current_char is always text[pos], *)
(* or None past the end, so it is derived.  A lexing function yields       *)
(* [ok, token, L] or, when it raises, [ok |-> FALSE, exc].  The alphabet   *)
(* of the model has no '.', no 'u' and no capital letter: number reads     *)
(* integers only, and the \u escape and str.lower() are not exercised.     *)
(***************************************************************************)
NoChar == "None"
Letters == {"a", "b", "c", "d", "f", "n", "x"}
\* jia_op is the character of addition, yu_op that of the remainder, yu
\* the second character of the comparison keywords; tui and chu_out are the
\* characters of the quit command
CJK == {"jia_op", "jian", "cheng", "chu", "yu_op", "mi", "zheng", "deng",
        "yu", "bu", "xiao", "da", "tui", "chu_out"}
Quotes == {"\"", "'"}
DigitValue(c) ==
    CASE c = "0" -> 0 [] c = "1" -> 1 [] c = "2" -> 2 [] c = "3" -> 3
      [] c = "4" -> 4 [] c = "5" -> 5 [] c = "6" -> 6 [] c = "7" -> 7
      [] c = "8" -> 8 [] c = "9" -> 9
isspace(c) == c \in {" ", "\t", "\n"}
isalpha(c) == c \in Letters \cup CJK
isdigit(c) == c \in {"0", "1", "2", "3", "4", "5", "6", "7", "8", "9"}
isalnum(c) == isalpha(c) \/ isdigit(c)

\* Lexer.KEYWORDS, for the words the model's alphabet can spell.  The six
\* comparison members are named by the table and missing from TokenType.
KEYWORDS(word) ==
    CASE word = "jia_op" -> "PLUS_CN"
      [] word = "jian" -> "MINUS_CN"
      [] word = "cheng" -> "MULTIPLY_CN"
      [] word = "chu" -> "DIVIDE_CN"
      [] word = "yu_op" -> "MODULO_CN"
      [] word = "mi" -> "POWER_CN"
      [] word = "zhengchu" -> "FLOOR_DIVIDE_CN"
      [] word = "dayu" -> "GREATER_CN"
      [] word = "xiaoyu" -> "LESS_CN"
      [] word = "dengyu" -> "EQUAL_CN"
      [] word = "budengyu" -> "NOT_EQUAL_CN"
      [] word = "dayudengyu" -> "GREATER_EQUAL_CN"
      [] word = "xiaoyudengyu" -> "LESS_EQUAL_CN"
      [] OTHER -> "IDENTIFIER"

\* Token(type, value, line, column)
TokenAt(type, value, line, column) ==
    [type |-> type, value |-> value, line |-> line, column |-> column]

\* Lexer.__init__
Lexer(text) ==
    [text |-> text, pos |-> 0, line |-> 1, column |-> 1,
     indent_stack |-> <<0>>]
current_char(L) == IF L.pos < Len(L.text) THEN L.text[L.pos + 1] ELSE NoChar
\* advance takes no argument; the column stays when the end is reached
Lexer_advance(L) ==
    IF L.pos + 1 >= Len(L.text) THEN [L EXCEPT !.pos = @ + 1]
    ELSE [L EXCEPT !.pos = @ + 1, !.column = @ + 1]
peek(L) == IF L.pos + 1 >= Len(L.text) THEN NoChar ELSE L.text[L.pos + 2]

Lexed(token, L) == [ok |-> TRUE, token |-> token, L |-> L, exc |-> NoSig]
\* self.error(message, error_code): LexerError with self.line, self.column
Lexer_error(L, error_code) ==
    [ok |-> FALSE, token |-> TokenAt("", "", L.line, L.column), L |-> L,
     exc |-> Exc("LexerError", TRUE, error_code)]
\* a TypeError of the host: '\\' + None, or advance called with an argument
Lexer_fault(L) ==
    [ok |-> FALSE, token |-> TokenAt("", "", 0, 0), L |-> L,
     exc |-> Exc("builtins.TypeError", FALSE, "Lexer")]

RECURSIVE skip_whitespace(_)
skip_whitespace(L) ==
    IF current_char(L) # NoChar /\ isspace(current_char(L))
       /\ current_char(L) # "\n"
    THEN skip_whitespace(Lexer_advance(L))
    ELSE L

RECURSIVE skip_comment(_)
skip_comment(L) ==
    IF current_char(L) # NoChar /\ current_char(L) # "\n"
    THEN skip_comment(Lexer_advance(L))
    ELSE L

\* the loop of number: the digits read so far are worth value
RECURSIVE NumberDigits(_, _)
NumberDigits(L, value) ==
    IF current_char(L) # NoChar /\ isdigit(current_char(L))
    THEN NumberDigits(Lexer_advance(L),
                      value * 10 + DigitValue(current_char(L)))
    ELSE [L |-> L, value |-> value]
number(L) ==
    LET n == NumberDigits(L, 0)
    IN  Lexed(TokenAt("INTEGER", n.value, L.line, L.column), n.L)

\* the loop of identifier
RECURSIVE IdentifierChars(_, _)
IdentifierChars(L, result) ==
    IF current_char(L) # NoChar
       /\ (isalnum(current_char(L)) \/ current_char(L) = "_")
    THEN IdentifierChars(Lexer_advance(L), result \o current_char(L))
    ELSE [L |-> L, result |-> result]
identifier(L) ==
    LET w == IdentifierChars(L, "")
    IN  Lexed(TokenAt(KEYWORDS(w.result), w.result, L.line, L.column), w.L)

\* what a backslash followed by e appends
Escape(e, quote) ==
    CASE e = "n" -> "\n"
      [] e = "t" -> "\t"
      [] e = "r" -> "\r"
      [] e = "\\" -> "\\"
      [] e = quote -> quote
      [] OTHER -> "\\" \o e

\* the loop of process_normal_string; when the text ends after a backslash
\* the last branch concatenates '\\' and None
RECURSIVE StringBody(_, _, _)
StringBody(L, quote, result) ==
    LET c == current_char(L)
        M == Lexer_advance(L)
    IN  IF c = NoChar \/ c = quote
        THEN [ok |-> TRUE, L |-> L, result |-> result]
        ELSE IF c = "\\"
        THEN IF current_char(M) = NoChar
             THEN [ok |-> FALSE, L |-> M, result |-> result]
             ELSE StringBody(Lexer_advance(M), quote,
                             result \o Escape(current_char(M), quote))
        ELSE StringBody(M, quote, result \o c)

process_normal_string(L, quote, start_column) ==
    LET body == StringBody(L, quote, "")
    IN  IF ~body.ok THEN Lexer_fault(body.L)
        ELSE IF current_char(body.L) = NoChar
        THEN Lexer_error(body.L, "LEX002")
        ELSE Lexed(TokenAt("STRING", body.result, L.line, start_column),
                   Lexer_advance(body.L))

\* text[first:last] as a string, and str.strip()
RECURSIVE Slice(_, _, _)
Slice(text, first, last) ==
    IF first >= last \/ first >= Len(text) THEN ""
    ELSE text[first + 1] \o Slice(text, first + 1, last)
RECURSIVE StripBounds(_, _, _)
StripBounds(text, first, last) ==
    IF first < last /\ first < Len(text) /\ isspace(text[first + 1])
    THEN StripBounds(text, first + 1, last)
    ELSE IF first < last /\ last <= Len(text) /\ isspace(text[last])
    THEN StripBounds(text, first, last - 1)
    ELSE Slice(text, first, last)

\* the loop over an expression of process_f_string: it goes on while the
\* braces are open or the current character is not '}'
RECURSIVE FExpression(_, _)
FExpression(L, brace_level) ==
    LET c == current_char(L)
    IN  IF c # NoChar /\ (brace_level > 0 \/ c # "}")
        THEN FExpression(Lexer_advance(L),
                         IF c = "{" THEN brace_level + 1
                         ELSE IF c = "}" THEN brace_level - 1
                         ELSE brace_level)
        ELSE [L |-> L, brace_level |-> brace_level]

\* the loop of process_f_string; brace_level is 0 whenever it is entered
RECURSIVE FStringBody(_, _, _, _)
FStringBody(L, quote, parts, current_part) ==
    LET c == current_char(L)
        M == Lexer_advance(L)
        flushed == IF current_part # ""
                   THEN Append(parts, <<"text", current_part>>)
                   ELSE parts
        E == FExpression(M, 1)
        expr == StripBounds(L.text, M.pos, E.L.pos - 1)
    IN  IF c = NoChar \/ c = quote
        THEN [ok |-> TRUE, exc |-> NoSig, L |-> L, parts |-> parts,
              current_part |-> current_part]
        ELSE IF c = "{"
        THEN IF peek(L) = "{"
             THEN [ok |-> FALSE, exc |-> Lexer_fault(L).exc, L |-> L,
                   parts |-> parts, current_part |-> current_part]
             ELSE IF E.brace_level > 0
             THEN [ok |-> FALSE, exc |-> Lexer_error(E.L, "LEX006").exc,
                   L |-> E.L, parts |-> parts,
                   current_part |-> current_part]
             ELSE FStringBody(E.L, quote,
                              IF expr # ""
                              THEN Append(flushed, <<"expr", expr>>)
                              ELSE flushed, "")
        ELSE IF c = "}"
        THEN [ok |-> FALSE,
              exc |-> IF peek(L) = "}" THEN Lexer_fault(L).exc
                      ELSE Lexer_error(L, "LEX001").exc,
              L |-> L, parts |-> parts, current_part |-> current_part]
        ELSE IF c = "\\"
        THEN IF current_char(M) = NoChar
             THEN [ok |-> FALSE, exc |-> Lexer_fault(M).exc, L |-> M,
                   parts |-> parts, current_part |-> current_part]
             ELSE FStringBody(Lexer_advance(M), quote, parts,
                              current_part
                              \o Escape(current_char(M), quote))
        ELSE FStringBody(M, quote, parts, current_part \o c)

process_f_string(L, quote, start_column) ==
    LET body == FStringBody(L, quote, <<>>, "")
        parts == IF body.current_part # ""
                 THEN Append(body.parts, <<"text", body.current_part>>)
                 ELSE body.parts
    IN  IF ~body.ok
        THEN [ok |-> FALSE, token |-> TokenAt("", "", 0, 0), L |-> body.L,
              exc |-> body.exc]
        ELSE IF current_char(body.L) = NoChar
        THEN Lexer_error(body.L, "LEX001")
        ELSE Lexed(TokenAt("F_STRING", parts, L.line, start_column),
                   Lexer_advance(body.L))

\* string: an f-string when the character before the quote is an f
string(L) ==
    LET is_f_string == L.pos > 0 /\ L.text[L.pos] = "f"
        start_column == IF is_f_string THEN L.column - 1 ELSE L.column
        quote == current_char(L)
    IN  IF is_f_string
        THEN process_f_string(Lexer_advance(L), quote, start_column)
        ELSE process_normal_string(Lexer_advance(L), quote, start_column)

\* the operator and delimiter branches of get_next_token
TwoChar(c, d) ==
    CASE c = "+" /\ d = "=" -> "PLUS_ASSIGN"
      [] c = "-" /\ d = "=" -> "MINUS_ASSIGN"
      [] c = "-" /\ d = ">" -> "ARROW"
      [] c = "*" /\ d = "=" -> "MULTIPLY_ASSIGN"
      [] c = "*" /\ d = "*" -> "POWER"
      [] c = "/" /\ d = "=" -> "DIVIDE_ASSIGN"
      [] c = "/" /\ d = "/" -> "FLOOR_DIVIDE"
      [] c = "%" /\ d = "=" -> "MODULO_ASSIGN"
      [] c = "=" /\ d = "=" -> "EQUAL"
      [] c = "!" /\ d = "=" -> "NOT_EQUAL"
      [] c = "<" /\ d = "=" -> "LESS_EQUAL"
      [] c = ">" /\ d = "=" -> "GREATER_EQUAL"
      [] OTHER -> ""
OneChar(c) ==
    CASE c = "+" -> "PLUS"
      [] c = "-" -> "MINUS"
      [] c = "*" -> "MULTIPLY"
      [] c = "/" -> "DIVIDE"
      [] c = "%" -> "MODULO"
      [] c = "=" -> "ASSIGN"
      [] c = "<" -> "LESS"
      [] c = ">" -> "GREATER"
      [] c = "(" -> "LPAREN"
      [] c = ")" -> "RPAREN"
      [] c = "[" -> "LBRACKET"
      [] c = "]" -> "RBRACKET"
      [] c = "{" -> "LBRACE"
      [] c = "}" -> "RBRACE"
      [] c = "," -> "COMMA"
      [] c = ":" -> "COLON"
      [] c = ";" -> "SEMICOLON"
      [] c = "@" -> "AT"
      [] OTHER -> ""
symbol(L) ==
    LET c == current_char(L)
        M == Lexer_advance(L)
        d == current_char(M)
        N == Lexer_advance(M)
    IN  IF OneChar(c) = "" /\ c # "!" THEN Lexer_error(L, "LEX001")
        ELSE IF TwoChar(c, d) # ""
        THEN Lexed(TokenAt(TwoChar(c, d), c \o d, N.line, N.column - 2), N)
        ELSE IF c = "!" THEN Lexer_error(M, "LEX005")
        ELSE Lexed(TokenAt(OneChar(c), c, M.line, M.column - 1), M)

\* the newline branch of get_next_token: it consumes the newline and the
\* blanks that start the next line, which must come in fours
RECURSIVE Spaces(_, _)
Spaces(L, spaces) ==
    IF current_char(L) = " " THEN Spaces(Lexer_advance(L), spaces + 1)
    ELSE [L |-> L, spaces |-> spaces]
newline(L) ==
    LET M == [Lexer_advance(L) EXCEPT !.line = @ + 1, !.column = 1]
        S == Spaces(M, 0)
    IN  IF S.spaces % 4 # 0 THEN Lexer_error(S.L, "LEX007")
        ELSE Lexed(TokenAt("NEWLINE", "\n", S.L.line - 1, S.L.column), S.L)

RECURSIVE get_next_token(_)
get_next_token(L) ==
    LET c == current_char(L)
    IN  IF c = NoChar THEN Lexed(TokenAt("EOF", "", L.line, L.column), L)
        ELSE IF isspace(c) /\ c # "\n"
        THEN get_next_token(skip_whitespace(L))
        ELSE IF c = "#" THEN get_next_token(skip_comment(L))
        ELSE IF c = "\n" THEN newline(L)
        ELSE IF isalpha(c) \/ c = "_" THEN identifier(L)
        ELSE IF isdigit(c) THEN number(L)
        ELSE IF c \in Quotes THEN string(L)
        ELSE symbol(L)

\* len(line) - len(line.lstrip()), and not line.strip()
RECURSIVE Indentation(_)
Indentation(line) ==
    IF line # <<>> /\ isspace(line[1]) THEN 1 + Indentation(Tail(line))
    ELSE 0
IsBlank(line) == Indentation(line) = Len(line)

\* the pops of handle_indent, one DEDENT token each
RECURSIVE Dedents(_, _, _, _)
Dedents(indent_stack, indent_level, line, tokens) ==
    IF indent_stack # <<>> /\ indent_level < indent_stack[Len(indent_stack)]
    THEN Dedents(SubSeq(indent_stack, 1, Len(indent_stack) - 1),
                 indent_level, line,
                 Append(tokens, TokenAt("DEDENT", indent_level, line, 1)))
    ELSE [indent_stack |-> indent_stack, tokens |-> tokens]

\* handle_indent pushing at every change of level, without comparing it
\* with the top
handle_indent_push_always(L, line) ==
    [ok |-> TRUE, exc |-> NoSig,
     L |-> [L EXCEPT !.indent_stack = Append(@, Indentation(line))],
     tokens |-> <<TokenAt("INDENT", Indentation(line), L.line, 1)>>]

\* handle_indent(line): yields [ok, L, tokens, exc]
handle_indent(L, line) ==
    LET indent_level == Indentation(line)
        top == L.indent_stack[Len(L.indent_stack)]
        popped == Dedents(L.indent_stack, indent_level, L.line, <<>>)
    IN  IF indent_level > top
        THEN [ok |-> TRUE, exc |-> NoSig,
              L |-> [L EXCEPT !.indent_stack = Append(@, indent_level)],
              tokens |-> <<TokenAt("INDENT", indent_level, L.line, 1)>>]
        ELSE IF indent_level < top
        THEN IF popped.indent_stack = <<>>
             THEN [ok |-> FALSE, exc |-> Exc("builtins.IndexError", FALSE,
                                             "Lexer"),
                   L |-> L, tokens |-> <<>>]
             ELSE IF indent_level
                     # popped.indent_stack[Len(popped.indent_stack)]
             THEN [ok |-> FALSE, exc |-> Lexer_error(L, "LEX001").exc,
                   L |-> L, tokens |-> <<>>]
             ELSE [ok |-> TRUE, exc |-> NoSig,
                   L |-> [L EXCEPT !.indent_stack = popped.indent_stack],
                   tokens |-> popped.tokens]
        ELSE [ok |-> TRUE, exc |-> NoSig, L |-> L, tokens |-> <<>>]

\* str.splitlines(): a final newline ends the last line and starts none
RECURSIVE SplitFrom(_, _, _)
SplitFrom(text, k, line) ==
    IF k > Len(text) THEN IF line = <<>> THEN <<>> ELSE <<line>>
    ELSE IF text[k] = "\n" THEN <<line>> \o SplitFrom(text, k + 1, <<>>)
    ELSE SplitFrom(text, k + 1, Append(line, text[k]))
splitlines(text) == SplitFrom(text, 1, <<>>)
\* sum(len(l) + 1 for l in lines[:i])
RECURSIVE LineStart(_, _)
LineStart(lines, i) ==
    IF i = 0 THEN 0 ELSE LineStart(lines, i - 1) + Len(lines[i]) + 1

(***************************************************************************)
(* Lexer.tokenize, a step at a time.  The activation holds the Lexer       *)
(* object (self) and the locals tokens, lines and i; pc is 0 at the head   *)
(* of the for loop, 1 in the while loop over the tokens of a line, 2 in    *)
(* the loop of the closing DEDENTs and 3 at `return tokens`.               *)
(***************************************************************************)
TokenizeFrame(text) ==
    [f |-> "tokenize", self |-> Lexer(text), tokens |-> <<>>,
     lines |-> splitlines(text), i |-> 0, pc |-> 0]
\* the list of tokens as a value handed to the caller
TokenList(tokens) == [t |-> "tokens", v |-> tokens]
Tokenizing == Len(stack) > 0 /\ Top.f = "tokenize" /\ sig.t = "none"
Step(frame) == stack' = Append(Below, frame) /\ UNCHANGED <<ret, sig>>

\* the head of the for loop: a blank line gives a NEWLINE; any other line
\* goes through handle_indent, then pos is set to the start of the line and
\* its leading blanks are skipped
tokenize_for ==
    /\ Tokenizing /\ Top.pc = 0
    /\ \/ /\ Top.lines = <<>>
          \* if not lines: return [Token(EOF, '', 1, 1)]
          /\ Step([Top EXCEPT !.tokens = <<TokenAt("EOF", "", 1, 1)>>,
                              !.pc = 3])
       \/ /\ Top.i < Len(Top.lines)
          /\ LET line == Top.lines[Top.i + 1]
                 L == [Top.self EXCEPT !.line = Top.i + 1, !.column = 1]
                 h == handle_indent(L, line)
                 M == [h.L EXCEPT !.pos = LineStart(Top.lines, Top.i),
                                  !.column = 1]
             IN  IF IsBlank(line)
                 THEN Step([Top EXCEPT
                              !.self = L,
                              !.tokens = Append(@, TokenAt("NEWLINE", "\n",
                                                           L.line, L.column)),
                              !.i = @ + 1])
                 ELSE IF ~h.ok THEN Raises(h.exc)
                 ELSE Step([Top EXCEPT !.self = skip_whitespace(M),
                                       !.tokens = @ \o h.tokens,
                                       !.pc = 1])
    /\ UNCHANGED others

\* the while loop over a line: get_next_token until a newline or the end
\* is the current character; a NEWLINE it returns is dropped.  After the
\* loop the line's NEWLINE is appended.
tokenize_while ==
    /\ Tokenizing /\ Top.pc = 1
    /\ LET c == current_char(Top.self)
           token == get_next_token(Top.self)
       IN  IF c # NoChar /\ c # "\n"
           THEN IF ~token.ok THEN Raises(token.exc)
                ELSE Step([Top EXCEPT
                             !.self = token.L,
                             !.tokens = IF token.token.type # "NEWLINE"
                                        THEN Append(@, token.token)
                                        ELSE @])
           ELSE Step([Top EXCEPT
                        !.tokens = Append(@, TokenAt("NEWLINE", "\n",
                                                     Top.self.line,
                                                     Top.self.column)),
                        !.i = @ + 1, !.pc = 0])
    /\ UNCHANGED others

\* whether the closing loop pops: while self.indent_stack[-1] > 0
closing_dedent_never(indent_stack) == FALSE
closing_dedent(indent_stack) == indent_stack[Len(indent_stack)] > 0

\* after the for loop: one DEDENT for each level still open, then EOF, then
\* return tokens
tokenize_return ==
    /\ Tokenizing
    /\ \/ /\ Top.pc = 0 /\ Top.lines # <<>> /\ Top.i = Len(Top.lines)
          /\ Step([Top EXCEPT !.pc = 2])
       \/ /\ Top.pc = 2 /\ closing_dedent(Top.self.indent_stack)
          /\ Step([Top EXCEPT
                     !.self.indent_stack = SubSeq(@, 1, Len(@) - 1),
                     !.tokens = Append(@, TokenAt("DEDENT", 0, Top.self.line,
                                                  Top.self.column))])
       \/ /\ Top.pc = 2 /\ ~closing_dedent(Top.self.indent_stack)
          /\ Step([Top EXCEPT
                     !.tokens = Append(@, TokenAt("EOF", "", Top.self.line,
                                                  Top.self.column)),
                     !.pc = 3])
       \/ /\ Top.pc = 3
          /\ Returns(TokenList(Top.tokens))
    /\ UNCHANGED others

(***************************************************************************)
(* The sources the lexer is run on.                                        *)
(***************************************************************************)
\* how many lines an indented source has, how many characters follow the
\* opening quote of a string, how many pieces the body of an f-string has
MaxLines == 3
MaxBody == 3
MaxPieces == 3

RECURSIVE Blanks(_)
Blanks(n) == IF n = 0 THEN <<>> ELSE <<" ">> \o Blanks(n - 1)
RECURSIVE Concat(_)
Concat(pieces) ==
    IF pieces = <<>> THEN <<>> ELSE pieces[1] \o Concat(Tail(pieces))
RECURSIVE JoinLines(_)
JoinLines(lines) ==
    IF Len(lines) = 0 THEN <<>>
    ELSE IF Len(lines) = 1 THEN lines[1]
    ELSE lines[1] \o <<"\n">> \o JoinLines(Tail(lines))

\* lines holding one identifier at an indentation of 0, 2, 4 or 8 blanks,
\* or nothing (-1), with or without a final newline
Indents == {-1, 0, 2, 4, 8}
IndentedLine(n) == IF n < 0 THEN <<>> ELSE Blanks(n) \o <<"a">>
Indented(levels, final_newline) ==
    JoinLines([k \in 1 .. Len(levels) |-> IndentedLine(levels[k])])
    \o (IF final_newline THEN <<"\n">> ELSE <<>>)

\* what may follow the last lexeme of a line
Tails == {<<>>, <<" ">>, <<"#", "c">>, <<" ", "#", "c">>}
\* a first line, a second line of one or two identifiers at an indentation
\* of 0, 2 or 4, each with a tail, and possibly a third line
Layout(tail1, indent2, words2, tail2, third) ==
    JoinLines(<<<<"a">> \o tail1,
                Blanks(indent2)
                \o (IF words2 = 1 THEN <<"b">> ELSE <<"b", " ", "c">>)
                \o tail2>>
              \o (IF third THEN <<<<"d">>>> ELSE <<>>))
\* the same source with every comment and every trailing blank removed
Stripped(indent2, words2, third) == Layout(<<>>, indent2, words2, <<>>, third)

\* an opening quote and what follows it
StringChars == {"a", "\\", "\"", " "}
Quoted(body) == <<"\"">> \o body

\* an f, an opening quote, the pieces of a body, and a closing quote or not
Pieces == {<<"a">>, <<" ">>, <<"{", "x", "}">>, <<"{">>, <<"}">>,
           <<"{", "{">>}
FString(pieces, closed) ==
    <<"f", "\"">> \o Concat(pieces) \o (IF closed THEN <<"\"">> ELSE <<>>)

\* the two spellings of the arithmetic and comparison operators
Spellings ==
    [add |-> <<<<"+">>, <<"jia_op">>>>,
     sub |-> <<<<"-">>, <<"jian">>>>,
     mul |-> <<<<"*">>, <<"cheng">>>>,
     div |-> <<<<"/">>, <<"chu">>>>,
     mod |-> <<<<"%">>, <<"yu_op">>>>,
     pow |-> <<<<"*", "*">>, <<"mi">>>>,
     floordiv |-> <<<<"/", "/">>, <<"zheng", "chu">>>>,
     eq |-> <<<<"=", "=">>, <<"deng", "yu">>>>,
     ne |-> <<<<"!", "=">>, <<"bu", "deng", "yu">>>>,
     lt |-> <<<<"<">>, <<"xiao", "yu">>>>,
     le |-> <<<<"<", "=">>, <<"xiao", "yu", "deng", "yu">>>>,
     gt |-> <<<<">">>, <<"da", "yu">>>>,
     ge |-> <<<<">", "=">>, <<"da", "yu", "deng", "yu">>>>]
OperatorNames == DOMAIN Spellings
\* a op b with blanks around the operator; spelling 1 is the symbol, 2 the
\* keyword
Spelled(a, op, spelling, b) ==
    <<a, " ">> \o Spellings[op][spelling] \o <<" ", b>>

\* detail is what the source was built from, where a family records it
LexInput(family, text, detail) ==
    [family |-> family, text |-> text, detail |-> detail]
Sources ==
    {LexInput("Indented", Indented(levels, final_newline), <<>>) :
        levels \in SeqsUpTo(Indents, MaxLines), final_newline \in BOOLEAN}
    \cup {LexInput("Layout", Layout(tail1, indent2, words2, tail2, third),
                     <<>>) :
            tail1 \in Tails, indent2 \in {0, 2, 4}, words2 \in {1, 2},
            tail2 \in Tails, third \in BOOLEAN}
    \cup {LexInput("Quoted", Quoted(body), <<>>) :
            body \in SeqsUpTo(StringChars, MaxBody)}
    \cup {LexInput("FString", FString(pieces, closed),
                     [pieces |-> pieces, closed |-> closed]) :
            pieces \in SeqsUpTo(Pieces, MaxPieces), closed \in BOOLEAN}
    \cup {LexInput("Spelled", Spelled("7", op, spelling, "2"), <<>>) :
            op \in OperatorNames, spelling \in {1, 2}}

InitLex ==
    /\ input \in Sources
    /\ units = <<>>
    /\ unit = 0
    /\ stack = <<TokenizeFrame(input.text)>>
    /\ envs = <<InterpreterInit>>
    /\ environment = globals
    /\ ret = NoneV
    /\ sig = NoSig
    /\ output = <<>>
    /\ outcome = NoOutcome
    /\ snapshot = InterpreterInit.values
    /\ touched = {}
    /\ last_call = NoLastCall
    /\ last_try = NoLastTry
    /\ expr_value = NoneV
    /\ call = NoCall

NextLex ==
    \/ tokenize_for
    \/ tokenize_while
    \/ tokenize_return

SpecLex == InitLex /\ [][NextLex]_vars

(***************************************************************************)
(* Name resolution (Environment.get, Environment.assign).                  *)
(***************************************************************************)
\* the scopes of the chain that starts at scope at, and those binding name
ChainOf(at) == 1 .. at
Defining(E, at, name) ==
    {k \in ChainOf(at) : E[k].values[name].t # "unbound"}
\* the innermost of them
Innermost(E, at, name) ==
    CHOOSE k \in Defining(E, at, name) :
        \A j \in Defining(E, at, name) : j <= k

\* C4: get returns the binding of the innermost scope of the chain that
\* defines the name, and assign rebinds the name in that scope and in no
\* other; each raises NameError exactly when no scope of the chain defines
\* the name, and then no scope is changed.  get never changes a scope.
C4_InnermostDefiningScope ==
    call.op \in {"get", "assign"} =>
        IF Defining(call.before, call.at, call.name) = {}
        THEN sig.t = "exc" /\ sig.cls = "NameError" /\ envs = call.before
        ELSE LET k == Innermost(call.before, call.at, call.name)
             IN  /\ sig.t = "none"
                 /\ call.op = "get" =>
                        /\ SameValue(ret, call.before[k].values[call.name])
                        /\ envs = call.before
                 /\ call.op = "assign" =>
                        envs = [call.before EXCEPT
                                   ![k].values[call.name] = call.value]

\* an assign from a scope that does not bind the name, which two enclosing
\* scopes bind: only the nearer one has the new value
C4_Witness ==
    /\ call.op = "assign" /\ sig.t = "none"
    /\ Cardinality(Defining(call.before, call.at, call.name)) >= 2
    /\ Innermost(call.before, call.at, call.name) < call.at
    /\ SameValue(envs[Innermost(call.before, call.at, call.name)]
                     .values[call.name], Fresh)

(***************************************************************************)
(* Function calls (XUANFunction.__call__, visit_FunctionDefinition).       *)
(***************************************************************************)
\* the __call__ activations that have created their environment
Calling == {k \in 1 .. Len(stack) : stack[k].f = "__call__" /\ stack[k].pc >= 1}
\* the position in params that names n, 0 when n is no parameter
ParamIndex(params, n) ==
    IF \E k \in 1 .. Len(params) : params[k] = n
    THEN CHOOSE k \in 1 .. Len(params) : params[k] = n
    ELSE 0

\* C1: every call runs in an environment of its own whose enclosing scope is
\* the scope the function was defined in; when the body starts, that
\* environment binds the parameters to the arguments position by position
\* and nothing else; a free name of the body resolves through the defining
\* scope, not the caller's (Shadowing), and two calls of one function keep
\* their bindings apart (Counters).
C1_CallScope ==
    /\ \A k \in Calling :
          /\ envs[stack[k].environment].enclosing = stack[k].self.closure
          /\ \A j \in Calling :
                j # k => stack[j].environment # stack[k].environment
          /\ (k < Len(stack) /\ stack[k + 1].f = "execute_block"
                /\ stack[k + 1].pc = 0) =>
                /\ environment # stack[k].environment
                /\ \A n \in Names :
                      LET params == stack[k].self.declaration.params
                          at == ParamIndex(params, n)
                          bound == envs[stack[k].environment].values[n]
                      IN  IF at = 0 \/ at > Len(stack[k].arguments)
                          THEN bound.t = "unbound"
                          ELSE SameValue(bound, stack[k].arguments[at])
    /\ (input.family = "Shadowing" /\ Finished) =>
          SameValue(Global("r"), IntV(input.a * 10 + input.b))
    /\ (input.family = "Counters" /\ Finished) =>
          SameValue(Global("r"), ListV(<<IntV(input.a * 10 + 0),
                                         IntV(input.b * 10 + 1)>>))

\* f, defined where x is a, was called from a scope where x is b, and read a
C1_Witness ==
    /\ input.family = "Shadowing" /\ input.a # input.b /\ Finished
    /\ last_call.completed
    /\ SameValue(Global("r"), IntV(input.a * 10 + input.b))

(***************************************************************************)
(* return (visit_Return, XUANFunction.__call__, visit_Try).                *)
(***************************************************************************)
\* print has written the one string text
Said(text) ==
    \E k \in 1 .. Len(output) :
        Len(output[k]) = 1 /\ output[k][1].t = "str" /\ output[k][1].v = text

\* C2: a call in which a return statement was executed evaluates to the
\* value of that return statement, and a call whose body fell through
\* evaluates to none; in f(): <return, however nested>; shuchu("after")
\* nothing that follows the return is executed: neither the rest of the
\* loop body around it nor the statement after it.
C2_ReturnEndsCall ==
    /\ last_call.completed =>
          SameValue(last_call.result,
                    IF last_call.returned THEN last_call.value ELSE NoneV)
    /\ (input.family = "InFunction"
            /\ input.core \in {"return", "return_none"}) =>
          ~Said("after") /\ ~Said("rest")

(***************************************************************************)
(* Blocks (execute_block).                                                 *)
(***************************************************************************)
\* execute_block has switched environments and has not yet left
InBlock == Len(stack) > 0 /\ Top.f = "execute_block" /\ Top.pc >= 1
\* control is in the block: the current environment is the one it was given
BlockEnvironment ==
    InBlock => environment = Top.environment /\ Top.previous = Top.at_call
\* the block is left, by completion or by an exception: the current
\* environment is again the one of the moment of the call
BlockExit ==
    (InBlock /\ Len(stack') < Len(stack)) => environment' = Top.at_call

\* C3: whenever control is in a block, between its statements or with an
\* exception of one of them in flight, the current environment is the
\* block's; however the block is left (completion, return, error), the
\* current environment is the one that was current when execute_block was
\* called, at every depth of nesting.
C3_BlockRestores == [][BlockEnvironment /\ BlockEnvironment' /\ BlockExit]_vars

\* a return has just left the body of a function that was called from
\* inside another block, and the caller's environment is current again
C3_Witness ==
    /\ Len(stack) > 0 /\ Top.f = "__call__" /\ Top.pc = 1
    /\ sig.cls = "ReturnValue"
    /\ environment # Top.environment
    /\ \E k \in 1 .. Len(stack) : stack[k].f = "execute_block"

(***************************************************************************)
(* name = value (Parser._parse_assignment, visit_VariableDeclaration).     *)
(***************************************************************************)
\* the evaluator is about to bind the target of a `name = value` whose
\* value it has evaluated
Binding ==
    /\ Running /\ Top.f = "visit" /\ Top.pc = 1
    /\ Top.node.type = parse_assignment(Identifier("x"), NoNode).type
\* every scope but the current one is as it was
EnclosingUnchanged ==
    \A k \in 1 .. Len(envs) : k # environment => envs'[k] = envs[k]
\* Rebinding: a, x and i rebound inside the if, for and while blocks of f
\* and of the top level leave the parameter a and the global x as they were
RebindingKept ==
    input.family = "Rebinding" =>
        /\ Global("x").t # "unbound" => SameValue(Global("x"), IntV(input.a))
        /\ Global("r").t # "unbound" =>
              SameValue(Global("r"), ListV(<<IntV(input.a), IntV(input.a)>>))

\* C5: the step that executes `name = value` raises nothing and changes the
\* current scope only, whether the name is bound in an enclosing scope or
\* not; so a name rebound inside a block, a loop body or a function body
\* keeps its binding in every enclosing scope.
C5_BindsCurrentScopeOnly ==
    [][(Binding => sig'.t = "none" /\ EnclosingUnchanged) /\ RebindingKept']_vars

\* inside the while body of Rebinding, x is bound in the block to a value
\* the global x does not have
C5_Witness ==
    /\ input.family = "Rebinding" /\ environment # globals
    /\ Global("r").t # "unbound"
    /\ envs[environment].values["x"].t = "int"
    /\ ~SameValue(envs[environment].values["x"], Global("x"))

C7_BreakStaysInLoop ==
    (sig.t = "exc" /\ sig.origin = "Break" /\ sig.in_loop) => InLoop(stack)

\* C8: a continue executed in a loop body raises no error.
C8_ContinueIsNoError ==
    ~(sig.t = "exc" /\ sig.origin = "Continue" /\ sig.in_loop)

(***************************************************************************)
(* Failing units (Interpreter.interpret, run_repl).                        *)
(***************************************************************************)
\* interpret has just failed
Failed == outcome.status = "raised"
\* the statements after the failing one of FailingUnit have not run
Aborted ==
    input.family = "Failing" =>
        ~Said("next") /\ ~SameValue(Global("x"), IntV(0))

\* C9 as stated: after a failing unit, every global name that was bound
\* when the last statement before the failing one completed is bound to the
\* same value, and no statement after the failing one has run.
C9_BindingsSurviveFailure ==
    /\ Failed =>
          \A n \in Names :
              snapshot[n].t # "unbound" => SameValue(Global(n), snapshot[n])
    /\ Aborted

\* C9 amended: after a failing unit, every such name is still bound, and to
\* the same value unless the failing statement itself bound the name in
\* the global scope before it failed; no statement after the failing one
\* has run.
C9_BindingsSurviveUnlessRebound ==
    /\ Failed =>
          \A n \in Names :
              snapshot[n].t # "unbound" =>
                  /\ Global(n).t # "unbound"
                  /\ n \notin touched => SameValue(Global(n), snapshot[n])
    /\ Aborted

\* (x = 2) + 1 / 0 has failed in the second unit: x, bound to 1 or 2 by the
\* first unit, is now 2, and f is what the first unit defined
C9_Witness ==
    /\ Failed /\ input.family = "Failing" /\ input.kind = "rebind"
    /\ unit = 2 /\ touched = {"x"}
    /\ SameValue(Global("x"), IntV(2))
    /\ snapshot["f"].t = "function" /\ SameValue(Global("f"), snapshot["f"])

(***************************************************************************)
(* The value of a unit (Interpreter.interpret, run_repl).                  *)
(***************************************************************************)
\* C10: interpret returns the value of the last top-level statement when
\* that statement is an expression statement (Expression: x = 4; a op b),
\* and none when it is not (NoValue).
C10_LastValue ==
    /\ (input.family = "Expression" /\ outcome.status = "returned") =>
          SameValue(outcome.value, expr_value)
    /\ (input.family = "NoValue" /\ outcome.status = "returned") =>
          outcome.value.t = "none"

(***************************************************************************)
(* Recursion (XUANFunction.__call__, visit_FunctionCall).                  *)
(***************************************************************************)
\* n!
RECURSIVE Fact(_)
Fact(n) == IF n <= 1 THEN 1 ELSE n * Fact(n - 1)

\* C11: with f(n): if n <= 1: return 1; return n * f(n - 1) defined, r = f(v)
\* binds r to v! for every v up to MaxArg; while an activation of f is
\* running, its environment binds n to the argument it was called with,
\* whatever the activations it started have bound.
C11_Factorial ==
    input.family = "Factorial" =>
        /\ Finished => SameValue(Global("r"), IntV(Fact(input.a)))
        /\ \A k \in Calling :
              /\ SameValue(envs[stack[k].environment].values["n"],
                           stack[k].arguments[1])
              /\ Global("f").t = "function"
              /\ stack[k].self = Global("f").v

\* f(5) has returned 120 through five activations
C11_Witness ==
    /\ input.family = "Factorial" /\ input.a = 5 /\ Finished
    /\ SameValue(Global("r"), IntV(120))
    /\ Len(envs) >= 6

(***************************************************************************)
(* Arithmetic and comparison (visit_BinaryOperation).                      *)
(***************************************************************************)
\* the unit is  x = 4; <left> op 0  with op a division or a floor division
DividesByZero ==
    /\ input.family = "Expression"
    /\ input.op \in {"/", "//", "chu", "zhengchu"}
    /\ input.b = 0

\* C12: a division or floor division (/, //, chu, zhengchu) whose right
\* operand is zero raises the language's ZeroDivisionError whatever the left
\* operand is (integer, string, none, list, variable): the only exception
\* ever in flight is that one, the expression statement never yields a value
\* and the unit ends raised with that class, not with a wrapped host fault.
C12_DivisionByZero ==
    DividesByZero =>
        /\ sig.t = "exc" =>
              /\ sig.cls = "ZeroDivisionError" /\ sig.xuan
              /\ sig.origin = "BinaryOperation"
        /\ expr_value.t = "none" \/ SameValue(expr_value, IntV(4))
        /\ outcome.status # "returned"
        /\ Finished =>
              outcome.status = "raised" /\ outcome.cls = "ZeroDivisionError"

\* "1" // 0 has ended with the language's ZeroDivisionError
C12_Witness ==
    /\ DividesByZero /\ input.a = 3 /\ input.op = "//" /\ Finished
    /\ outcome.status = "raised" /\ outcome.cls = "ZeroDivisionError"

\* the unit is  x = 4; "1" op <number>  or  <number> op "1"
ComparesStringWithNumber ==
    /\ input.family = "Expression"
    /\ input.op \in {"==", "!=", "<", "<=", ">", ">="}
    /\ \/ input.a = 3 /\ input.b \in {0, 1, 2}
       \/ input.b = 3 /\ input.a \in {0, 1, 2}

\* the comparison of the numbers v and w by op
Compared(v, op, w) ==
    CASE op = "==" -> v = w
      [] op = "!=" -> v # w
      [] op = "<" -> v < w
      [] op = "<=" -> v <= w
      [] op = ">" -> v > w
      [] op = ">=" -> v >= w

\* C13: a comparison of the string "1" with a number is made on the numeric
\* values: the unit ends with a truth value, the one the comparison of 1 with
\* that number has ("1" == 1 is true, "1" < 2 is true), and no error is
\* signalled since "1" parses as a number.
C13_StringComparedAsNumber ==
    (ComparesStringWithNumber /\ Finished) =>
        /\ outcome.status = "returned"
        /\ SameValue(expr_value,
                     Bool(Compared(IF input.a = 3 THEN 1 ELSE input.a,
                                   input.op,
                                   IF input.b = 3 THEN 1 ELSE input.b)))

(***************************************************************************)
(* Indexing (parse_call_or_access, visit_Subscript).                       *)
(***************************************************************************)
\* C14: after x = [1, 2, 3], the parsed expression x[i] yields the element at
\* position i for every i in range (x[1] is 2), and an index out of range
\* ends the unit with the language's IndexError, never another error kind.
C14_IndexReads ==
    (input.family = "Subscripting" /\ input.kind = "parsed" /\ Finished) =>
        IF input.a \in 0 .. 2
        THEN /\ outcome.status = "returned"
             /\ SameValue(expr_value, IntV(input.a + 1))
        ELSE outcome.status = "raised" /\ outcome.cls = "IndexError"

(***************************************************************************)
(* Truthiness (is_truthy).                                                 *)
(***************************************************************************)
\* the conditions whose value is none, a numeric zero or an empty string or
\* list: None, 0, 0.0, "", []
NoneZeroOrEmpty == 0 .. 4

\* C15: a condition is false exactly when its value is none, a numeric zero
\* or an empty string or list, and true for every other value, every
\* non-empty string included: if <condition>: shuchu("then") else:
\* shuchu("else") says "else" for None, 0, 0.0, "" and [] and "then" for
\* every other condition.
C15_FalseExactlyWhenEmpty ==
    (input.family = "Truthiness" /\ Finished) =>
        /\ outcome.status = "returned"
        /\ Said("else") <=> input.a \in NoneZeroOrEmpty
        /\ Said("then") <=> input.a \notin NoneZeroOrEmpty

(***************************************************************************)
(* Short circuit (visit_LogicalOperation).                                 *)
(***************************************************************************)
\* the conditions is_truthy holds of
Truthy == Conditions \ (NoneZeroOrEmpty \cup {9})
\* the right operand of f() op g() has to be evaluated
NeedsRight ==
    \/ input.op = "and" /\ input.a \in Truthy
    \/ input.op = "or" /\ input.a \notin Truthy

C17_InheritedMethod ==
    (input.family = "Inheritance" /\ input.kind = "parsed" /\ Finished) =>
        /\ Global("x").t = "instance"
        /\ SameValue(Global("r"), IntV(7))

\* class D(<base>) is being evaluated and its base is known not to be a
\* class
BaseIsNoClass ==
    /\ input.family = "ClassBase"
    /\ Running /\ IsVisit("ClassDefinition") /\ Top.pc = 1
    /\ ret.t # "class"

\* C18: a class definition whose base evaluates to a value that is not a
\* class (none, a number, a string, a list, a function) signals the
\* language's TypeError before anything is bound: the step that finds the
\* base out raises it and leaves every environment and the
\* current-environment pointer as they were, and the class name D stays
\* unbound, or bound to the 1 it was given before, in every scope, and no
\* scope for the superclass is made.
C18_BaseMustBeClass ==
    /\ [][BaseIsNoClass =>
             /\ sig'.t = "exc" /\ sig'.cls = "TypeError" /\ sig'.xuan
             /\ envs' = envs /\ environment' = environment]_vars
    /\ [](input.family = "ClassBase" =>
             /\ \A i \in 1 .. Len(envs) :
                   /\ envs[i].values["fulei"].t = "unbound"
                   /\ \/ envs[i].values["D"].t = "unbound"
                      \/ /\ i = globals /\ input.b = 1
                         /\ SameValue(envs[i].values["D"], IntV(1))
             /\ (Finished \/ After(2)) =>
                   outcome.status = "raised" /\ outcome.cls = "TypeError")

\* class D(f) in the body of g, D bound to 1 before: the TypeError is in
\* flight in the call of g and D is still 1
C18_Witness ==
    /\ input.family = "ClassBase" /\ input.kind = "body" /\ input.a = 11
    /\ input.b = 1
    /\ sig.t = "exc" /\ sig.cls = "TypeError"
    /\ sig.origin = "ClassDefinition"
    /\ environment # globals
    /\ SameValue(Global("D"), IntV(1))

(***************************************************************************)
(* Parsing if statements (parse_block, parse_if_statement).                *)
(***************************************************************************)
\* C19: a header followed by a colon and a statement on the same line parses
\* to a block holding exactly that statement, and for  if c: return 1 else:
\* return 2  written this way the then-statement alone runs when c is true
\* and the else-statement alone otherwise: parsing and evaluating it yields 1
\* for c true and 2 for c false.
C19_InlineBlocks ==
    (/\ input.family = "IfSource" /\ input.kind = "inline"
     /\ input.a = 0 /\ input.b = 1 /\ input.core = "return"
     /\ Finished) =>
        /\ Len(units) = 1
        /\ Len(units[1].statements[1].then_block.statements) = 1
        /\ Len(units[1].statements[1].else_block.statements) = 1
        /\ outcome.status = "returned"
        /\ SameValue(outcome.value,
                     IntV(IF input.ws[1] = "TRUE" THEN 1 ELSE 2))

\* the last node of a chain of If nodes nested through else_block
RECURSIVE LastOfChain(_)
LastOfChain(node) ==
    IF node.else_block.type = "If" THEN LastOfChain(node.else_block) ELSE node
\* the number of the block that has to run: that of the first true
\* condition, else that of the else block, else 0
BlockToRun ==
    IF \E k \in 1 .. Len(input.ws) : input.ws[k] = "TRUE"
    THEN CHOOSE k \in 1 .. Len(input.ws) :
             /\ input.ws[k] = "TRUE"
             /\ \A j \in 1 .. k - 1 : input.ws[j] # "TRUE"
    ELSE IF input.b = 1 THEN Len(input.ws) + 1 ELSE 0

\* C20: an if statement with elif branches and an optional else block E
\* parses to If(c0, B0, If(c1, B1, ... If(cn, Bn, E))): the outer node keeps
\* the condition c0, E is the else branch of the innermost node, and
\* evaluating the statement runs exactly the first block whose condition is
\* true, or E when none is.
C20_ElifChain ==
    (/\ input.family = "IfSource" /\ input.kind = "indented"
     /\ input.a >= 1 /\ Finished) =>
        /\ Len(units) = 1
        /\ LET node == units[1].statements[1]
           IN  /\ node.condition.value = (input.ws[1] = "TRUE")
               /\ LastOfChain(node).else_block.type =
                      IF input.b = 1 THEN "Block" ELSE "NoNode"
        /\ input.core = "expr" =>
              IF BlockToRun = 0 THEN expr_value.t = "none"
              ELSE SameValue(expr_value, IntV(BlockToRun))

(***************************************************************************)
(* Indentation tokens (Lexer.handle_indent, Lexer.tokenize).               *)
(***************************************************************************)
\* tokenize is about to return its tokens
AtReturn == Len(stack) > 0 /\ Top.f = "tokenize" /\ Top.pc = 3
\* how many tokens of a type a list holds
Count(tokens, type) ==
    Cardinality({k \in 1 .. Len(tokens) : tokens[k].type = type})

\* C22: whenever tokenize returns a token list, the list holds as many
\* DEDENT tokens as INDENT tokens and the indentation stack is [0] again.
C22_IndentsMatchDedents ==
    AtReturn =>
        /\ Count(Top.tokens, "INDENT") = Count(Top.tokens, "DEDENT")
        /\ Top.self.indent_stack = <<0>>

\* a source indented twice whose last level is closed at the end of input
C22_Witness ==
    /\ AtReturn
    /\ Count(Top.tokens, "INDENT") = 2
    /\ Top.tokens[Len(Top.tokens) - 1].type = "DEDENT"

\* the for loop of tokenize is at a line that is indented less than the top
\* of the stack
NextLine == Top.lines[Top.i + 1]
Dedenting ==
    /\ Tokenizing /\ Top.pc = 0 /\ Top.i < Len(Top.lines)
    /\ ~IsBlank(NextLine)
    /\ Indentation(NextLine)
       < Top.self.indent_stack[Len(Top.self.indent_stack)]
OnStack(level) ==
    \E k \in 1 .. Len(Top.self.indent_stack) :
        Top.self.indent_stack[k] = level
\* the entries of the stack above a level
Above(level) ==
    Cardinality({k \in 1 .. Len(Top.self.indent_stack) :
                    Top.self.indent_stack[k] > level})
\* the tokens so far hold a lexeme of line n
HasTokenOfLine(n) ==
    \E k \in 1 .. Len(Top.tokens) :
        /\ Top.tokens[k].line = n
        /\ Top.tokens[k].type \notin {"NEWLINE", "INDENT", "DEDENT", "EOF"}

\* C23: at a line indented less than the top of the stack, to a level L: if
\* L is on the stack the step appends one DEDENT for each entry above L and
\* nothing else, no token of the line comes before them, and L becomes the
\* top; if L is not on the stack the step raises LexerError and tokenize
\* returns nothing.
C23_DedentPerPoppedLevel ==
    [][Dedenting =>
        IF OnStack(Indentation(NextLine))
        THEN /\ Len(stack') = Len(stack)
             /\ Len(Top'.tokens)
                = Len(Top.tokens) + Above(Indentation(NextLine))
             /\ \A k \in Len(Top.tokens) + 1 .. Len(Top'.tokens) :
                    Top'.tokens[k].type = "DEDENT"
             /\ SubSeq(Top'.tokens, 1, Len(Top.tokens)) = Top.tokens
             /\ Top'.self.indent_stack[Len(Top'.self.indent_stack)]
                = Indentation(NextLine)
             /\ ~HasTokenOfLine(Top.i + 1)
        ELSE /\ stack' = Below
             /\ sig'.cls = "LexerError"
             /\ ret' = ret]_vars

\* the same without the clause on the tokens of the line: what holds of the
\* step itself
DedentStepIsExact ==
    [][Dedenting =>
        IF OnStack(Indentation(NextLine))
        THEN /\ Len(stack') = Len(stack)
             /\ Len(Top'.tokens)
                = Len(Top.tokens) + Above(Indentation(NextLine))
             /\ Top'.self.indent_stack[Len(Top'.self.indent_stack)]
                = Indentation(NextLine)
        ELSE /\ stack' = Below
             /\ sig'.cls = "LexerError"
             /\ ret' = ret]_vars

(***************************************************************************)
(* Token positions (Lexer.tokenize, Lexer.get_next_token, Lexer.advance).  *)
(***************************************************************************)
\* the tokens that stand for a lexeme of the source
Lexemes(tokens) ==
    SelectSeq(tokens, LAMBDA token :
                token.type \notin {"NEWLINE", "INDENT", "DEDENT", "EOF"})
\* (line, column) of a is not after that of b
NotAfter(a, b) == a.line < b.line \/ (a.line = b.line /\ a.column <= b.column)

\* C24: in the token list tokenize returns, the position of every lexeme
\* token is greater than or equal to the position of the lexeme token
\* before it.
C24_PositionsNeverDecrease ==
    AtReturn =>
        \A k \in 2 .. Len(Lexemes(Top.tokens)) :
            NotAfter(Lexemes(Top.tokens)[k - 1], Lexemes(Top.tokens)[k])

(***************************************************************************)
(* Blanks and comments (Lexer.skip_whitespace, Lexer.skip_comment).        *)
(***************************************************************************)
\* tokenize as a function of the text: the same loops, run to the end
RECURSIVE LineTokens(_, _)
LineTokens(L, tokens) ==
    LET c == current_char(L)
        token == get_next_token(L)
    IN  IF c # NoChar /\ c # "\n"
        THEN IF ~token.ok THEN [ok |-> FALSE, L |-> L, tokens |-> <<>>]
             ELSE LineTokens(token.L, IF token.token.type # "NEWLINE"
                                      THEN Append(tokens, token.token)
                                      ELSE tokens)
        ELSE [ok |-> TRUE, L |-> L,
              tokens |-> Append(tokens, TokenAt("NEWLINE", "\n", L.line,
                                                L.column))]
RECURSIVE ClosingTokens(_, _)
ClosingTokens(L, tokens) ==
    IF closing_dedent(L.indent_stack)
    THEN ClosingTokens([L EXCEPT !.indent_stack = SubSeq(@, 1, Len(@) - 1)],
                       Append(tokens, TokenAt("DEDENT", 0, L.line, L.column)))
    ELSE Append(tokens, TokenAt("EOF", "", L.line, L.column))
RECURSIVE LinesFrom(_, _, _, _)
LinesFrom(L0, lines, i, tokens) ==
    LET L == [L0 EXCEPT !.line = i + 1, !.column = 1]
        h == handle_indent(L, lines[i + 1])
        M == [h.L EXCEPT !.pos = LineStart(lines, i), !.column = 1]
        rest == LineTokens(skip_whitespace(M), tokens \o h.tokens)
    IN  IF i = Len(lines)
        THEN [ok |-> TRUE, tokens |-> ClosingTokens(L0, tokens)]
        ELSE IF IsBlank(lines[i + 1])
        THEN LinesFrom(L, lines, i + 1,
                       Append(tokens, TokenAt("NEWLINE", "\n", L.line,
                                              L.column)))
        ELSE IF ~h.ok \/ ~rest.ok THEN [ok |-> FALSE, tokens |-> <<>>]
        ELSE LinesFrom(rest.L, lines, i + 1, rest.tokens)
Tokenized(text) ==
    IF splitlines(text) = <<>>
    THEN [ok |-> TRUE, tokens |-> <<TokenAt("EOF", "", 1, 1)>>]
    ELSE LinesFrom(Lexer(text), splitlines(text), 0, <<>>)

\* a line without its comment, and without the blanks that end it
RECURSIVE Uncommented(_)
Uncommented(line) ==
    IF line = <<>> \/ line[1] = "#" THEN <<>>
    ELSE <<line[1]>> \o Uncommented(Tail(line))
RECURSIVE RStrip(_)
RStrip(line) ==
    IF line # <<>> /\ isspace(line[Len(line)])
    THEN RStrip(SubSeq(line, 1, Len(line) - 1))
    ELSE line
\* the source with every comment and every trailing blank removed; the
\* sources it is applied to have no string literal and no final newline
WithoutComments(text) ==
    JoinLines([k \in 1 .. Len(splitlines(text)) |->
                 RStrip(Uncommented(splitlines(text)[k]))])

\* the same token kinds and values, in the same order
SameKindsAndValues(s, t) ==
    /\ Len(s) = Len(t)
    /\ \A k \in 1 .. Len(s) :
          s[k].type = t[k].type /\ s[k].value = t[k].value

\* C25: the tokens tokenize returns for a source have the kinds and values
\* of the tokens of the same source without its comments and trailing
\* blanks.
C25_CommentsAndBlanksAddNothing ==
    AtReturn /\ input.family = "Layout" =>
        SameKindsAndValues(Top.tokens,
                           Tokenized(WithoutComments(input.text)).tokens)

\* the step-wise tokenize and the function agree
TokenizedIsTokenize == AtReturn => Top.tokens = Tokenized(input.text).tokens

(***************************************************************************)
(* String literals (Lexer.string, process_normal_string, process_f_string).*)
(***************************************************************************)
\* whether the body that follows an opening quote reaches a closing quote:
\* a backslash takes the next character with it
RECURSIVE Closes(_, _)
Closes(text, k) ==
    IF k > Len(text) THEN FALSE
    ELSE IF text[k] = "\"" THEN TRUE
    ELSE IF text[k] = "\\" THEN Closes(text, k + 2)
    ELSE Closes(text, k + 1)
\* tokenize has left, with tokens or with an exception
Left == stack = <<>>

\* C26: when the opening quote of a string has no closing quote before the
\* end of the source, tokenize raises LexerError for an unterminated string
\* (LEX002) and returns no tokens; no exception of the host escapes.
C26_UnterminatedString ==
    Left /\ input.family = "Quoted" /\ ~Closes(input.text, 2) =>
        /\ sig.t = "exc" /\ sig.cls = "LexerError" /\ sig.origin = "LEX002"
        /\ ret = NoneV

Range(s) == {s[k] : k \in DOMAIN s}
\* the pieces without a lone or doubled brace: text, or one expression
PlainPieces == {<<"a">>, <<" ">>, <<"{", "x", "}">>}
\* the parts of a body of plain pieces: each run of text one text part,
\* each {x} an expression part
RECURSIVE PartsOf(_, _, _)
PartsOf(pieces, parts, current_part) ==
    LET flushed == IF current_part # ""
                   THEN Append(parts, <<"text", current_part>>)
                   ELSE parts
    IN  IF pieces = <<>> THEN flushed
        ELSE IF pieces[1] = <<"{", "x", "}">>
        THEN PartsOf(Tail(pieces), Append(flushed, <<"expr", "x">>), "")
        ELSE PartsOf(Tail(pieces), parts, current_part \o pieces[1][1])
\* the braces of the body do not pair up
RECURSIVE Unbalanced(_, _)
Unbalanced(body, depth) ==
    IF body = <<>> THEN depth # 0
    ELSE IF body[1] = "{" THEN Unbalanced(Tail(body), depth + 1)
    ELSE IF body[1] = "}"
    THEN depth = 0 \/ Unbalanced(Tail(body), depth - 1)
    ELSE Unbalanced(Tail(body), depth)
IsFString ==
    /\ Left /\ input.family = "FString" /\ input.detail.closed
    /\ <<"{", "{">> \notin Range(input.detail.pieces)

\* C27: an f-string with a closing quote yields one F_STRING token and no
\* other lexeme token; for a body of text and {x} regions its value is the
\* ordered list of text and expression parts; a body whose braces do not
\* pair up raises LexerError.
C27_InterpolatedParts ==
    /\ IsFString /\ Range(input.detail.pieces) \subseteq PlainPieces =>
          /\ sig.t = "none"
          /\ Len(Lexemes(ret.v)) = 1
          /\ Lexemes(ret.v)[1].type = "F_STRING"
          /\ Lexemes(ret.v)[1].value = PartsOf(input.detail.pieces, <<>>, "")
    /\ IsFString /\ Unbalanced(Concat(input.detail.pieces), 0) =>
          sig.t = "exc" /\ sig.cls = "LexerError"

(***************************************************************************)
(* The indentation stack (Lexer.indent_stack).                             *)
(***************************************************************************)
\* C29: while tokenize runs, the indentation stack is never empty, its
\* bottom element is 0 and its elements increase strictly from bottom to
\* top.
C29_IndentStack ==
    Len(stack) > 0 /\ Top.f = "tokenize" =>
        /\ Len(Top.self.indent_stack) >= 1
        /\ Top.self.indent_stack[1] = 0
        /\ \A k \in 2 .. Len(Top.self.indent_stack) :
              Top.self.indent_stack[k - 1] < Top.self.indent_stack[k]

\* handle_indent has popped two levels at once and stopped at the bottom
C29_Witness ==
    /\ Tokenizing /\ Top.pc = 1
    /\ Top.self.indent_stack = <<0>>
    /\ Len(Top.tokens) >= 2
    /\ Top.tokens[Len(Top.tokens)].type = "DEDENT"
    /\ Top.tokens[Len(Top.tokens) - 1].type = "DEDENT"

(***************************************************************************)
(* The environment pointer at the top level (Interpreter.interpret,        *)
(* execute_block, visit_ClassDefinition).                                  *)
(***************************************************************************)
\* interpret is between two top-level statements, or it has left: nothing
\* it called is still running
AtTopLevelBoundary ==
    stack = <<>> \/ Top.f \in {"interpret", "run_repl"}

\* C28: whenever interpret is about to execute a top-level statement, and
\* whenever it has left, with a value or with an exception, the current
\* environment is the global environment.
C28_TopLevelEnvironmentIsGlobal == AtTopLevelBoundary => environment = globals

\* interpret was left by an exception after scopes other than the global one
\* had been created, and the pointer is back on the global environment
C28_Witness ==
    /\ Len(stack) > 0 /\ Top.f = "run_repl" /\ sig.t = "exc"
    /\ Len(envs) > 1
    /\ environment = globals

(***************************************************************************)
(* run(source) of src/xuan/main.py: the source is lexed, parsed and        *)
(* interpreted by a new Interpreter; an error of any stage leaves run.     *)
(***************************************************************************)
RunSourceFrame(source) == [f |-> "run_source", source |-> source, pc |-> 0]

run_source ==
    /\ Len(stack) > 0 /\ Top.f = "run_source"
    /\ \/ /\ Top.pc = 0
          \* tokens = lexer.tokenize()
          /\ Calls(1, TokenizeFrame(Top.source))
          /\ UNCHANGED others
       \/ /\ Top.pc = 1 /\ sig.t = "none"
          \* program = parser.parse(); interpreter.interpret(program)
          /\ \E program \in {parse(Parser(ret.v))} :
                 IF program.ok
                 THEN /\ units' = <<program.node>>
                      /\ unit' = 1
                      /\ Calls(2, InterpretFrame(program.node))
                      /\ UNCHANGED outcome
                 ELSE /\ Raises(Exc("SyntaxError", TRUE, "Parser"))
                      /\ outcome' = [NoOutcome EXCEPT !.status = "raised",
                                        !.cls = "SyntaxError",
                                        !.origin = "Parser"]
                      /\ UNCHANGED <<units, unit>>
          /\ UNCHANGED <<input, store, output, history>>
       \/ /\ Top.pc = 1 /\ sig.t = "exc"
          /\ outcome' = [NoOutcome EXCEPT !.status = "raised",
                            !.cls = sig.cls, !.origin = sig.origin]
          /\ stack' = Below
          /\ UNCHANGED <<ret, sig, input, units, unit, store, output, history>>
       \/ /\ Top.pc = 2 /\ sig.t = "none"
          /\ outcome' = [NoOutcome EXCEPT !.status = "returned", !.value = ret]
          /\ stack' = Below
          /\ UNCHANGED <<ret, sig, input, units, unit, store, output, history>>
       \/ /\ Top.pc = 2 /\ sig.t = "exc"
          /\ outcome' = [NoOutcome EXCEPT !.status = "raised",
                            !.cls = sig.cls, !.origin = sig.origin]
          /\ stack' = Below
          /\ UNCHANGED <<ret, sig, input, units, unit, store, output, history>>

\* the operands of the expressions a op b
OperandDigits == {"0", "2", "7"}

InitRun ==
    /\ \E a \in OperandDigits, b \in OperandDigits, op \in OperatorNames,
          spelling \in {1, 2} :
          input = LexInput("Spelled", Spelled(a, op, spelling, b),
                           [a |-> a, op |-> op, spelling |-> spelling,
                            b |-> b])
    /\ units = <<>>
    /\ unit = 0
    /\ stack = <<RunSourceFrame(input.text)>>
    /\ envs = <<InterpreterInit>>
    /\ environment = globals
    /\ ret = NoneV
    /\ sig = NoSig
    /\ output = <<>>
    /\ outcome = NoOutcome
    /\ snapshot = InterpreterInit.values
    /\ touched = {}
    /\ last_call = NoLastCall
    /\ last_try = NoLastTry
    /\ expr_value = NoneV
    /\ call = NoCall

NextRun ==
    \/ run_source
    \/ tokenize_for
    \/ tokenize_while
    \/ tokenize_return
    \/ interpret
    \/ visit_ExpressionStatement
    \/ visit_BinaryOperation
    \/ visit_Literal
    \/ Propagate

SpecRun == InitRun /\ [][NextRun]_vars

(***************************************************************************)
(* The two spellings of an operator (Lexer.KEYWORDS, _parse_comparison,    *)
(* _parse_term, _parse_factor, visit_BinaryOperation).                     *)
(***************************************************************************)
\* how run left: with the value of the expression, or with an exception
Observed ==
    IF outcome.status = "returned" THEN [ok |-> TRUE, value |-> expr_value]
    ELSE [ok |-> FALSE, value |-> ExcV(outcome.cls)]

\* the characters of a word, joined
RECURSIVE Joined(_)
Joined(chars) == IF chars = <<>> THEN "" ELSE chars[1] \o Joined(Tail(chars))

\* what a op b gives when op is written as a symbol: visit_BinaryOperation
\* applied to the two integers, an exception of the host being passed on by
\* interpret as a RuntimeError
Symbolic(a, op, b) ==
    LET r == BinaryOp(Joined(Spellings[op][1]), IntV(DigitValue(a)),
                      IntV(DigitValue(b)))
    IN  IF r.ok THEN [ok |-> TRUE, value |-> r.value]
        ELSE [ok |-> FALSE,
              value |-> ExcV(IF r.exc.xuan THEN r.exc.cls
                             ELSE "RuntimeError")]

SameResult(x, y) ==
    /\ x.ok = y.ok
    /\ x.value.t = y.value.t
    /\ x.value.v = y.value.v

Comparisons == {"eq", "ne", "lt", "le", "gt", "ge"}

\* C21: an expression written with the keyword spelling of an arithmetic or
\* comparison operator is lexed, parsed and evaluated to the same result as
\* the same expression written with the symbol, on the same operands.
C21_KeywordAsSymbol ==
    Finished =>
        SameResult(Observed,
                   Symbolic(input.detail.a, input.detail.op, input.detail.b))

\* the symbolic spelling gives what visit_BinaryOperation computes, and so
\* does the keyword spelling of the arithmetic operators
SymbolsAndArithmeticKeywords ==
    (Finished /\ (input.detail.spelling = 1
                  \/ input.detail.op \notin Comparisons)) =>
        SameResult(Observed,
                   Symbolic(input.detail.a, input.detail.op, input.detail.b))

\* the keyword spelling of a comparison leaves run with a SyntaxError
ComparisonKeywordIsRejected ==
    (Finished /\ input.detail.spelling = 2
     /\ input.detail.op \in Comparisons) =>
        outcome.status = "raised" /\ outcome.cls = "SyntaxError"

(***************************************************************************)
(* run_repl of src/xuan/main.py, from the console: what input() returns is *)
(* a sequence of lines, and it raises EOFError after the last one.  The    *)
(* frame holds lines, the lines collected for the current source, and      *)
(* read, the number of console lines consumed.  output records what is     *)
(* printed for an executed source, not the banner and the farewell.        *)
(***************************************************************************)
ConsoleInput(lines) == [family |-> "Console", lines |-> lines]
ReplSourceFrame ==
    [f |-> "run_repl_source", pc |-> 0, lines |-> <<>>, read |-> 0]

RECURSIVE LStrip(_)
LStrip(line) ==
    IF line # <<>> /\ isspace(line[1]) THEN LStrip(Tail(line)) ELSE line
\* line.strip()
Strip(line) == RStrip(LStrip(line))

\* sub in s
Contains(s, sub) ==
    \E k \in 1 .. Len(s) - Len(sub) + 1 :
        SubSeq(s, k, k + Len(sub) - 1) = sub

\* "未完成" in str(e) or "期望" in str(e), for the SyntaxError e of message;
\* the location that str(e) puts before the message holds neither word
Unfinished(message) ==
    \/ Contains(message, <<"wei", "wan", "cheng">>)
    \/ Contains(message, <<"qi", "wang">>)

QuitCommand == <<"tui", "chu_out", "(", ")">>

run_repl_source ==
    /\ Len(stack) > 0 /\ Top.f = "run_repl_source"
    /\ \/ /\ Top.pc = 0 /\ Top.read = Len(input.lines)
          \* input(">>> ") raises EOFError: the loop ends
          /\ stack' = Below
          /\ UNCHANGED <<ret, sig, others>>
       \/ /\ Top.pc = 0 /\ Top.read < Len(input.lines)
          /\ LET line == input.lines[Top.read + 1]
             IN  IF Strip(line) = QuitCommand
                 THEN stack' = Below /\ UNCHANGED <<ret, sig>>
                 ELSE CallsWith([Top EXCEPT !.pc = 1, !.lines = <<line>>,
                                            !.read = @ + 1],
                                TokenizeFrame(line))
          /\ UNCHANGED others
       \/ /\ Top.pc = 1 /\ sig.t = "none"
          \* tokens = lexer.tokenize() returned: program = parser.parse()
          /\ \E program \in {parse(Parser(ret.v))} :
                 IF program.ok
                 THEN \* result = interpreter.interpret(program)
                      /\ units' = Append(units, program.node)
                      /\ unit' = unit + 1
                      /\ outcome' = NoOutcome
                      /\ Calls(2, InterpretFrame(program.node))
                 ELSE IF ~Unfinished(program.message)
                 THEN \* raise: no handler of run_repl takes a SyntaxError
                      /\ Raises(Exc("SyntaxError", TRUE, "Parser"))
                      /\ UNCHANGED <<units, unit, outcome>>
                 ELSE IF Top.read = Len(input.lines)
                 THEN \* input("... ") raises EOFError: the loop ends
                      /\ stack' = Below
                      /\ UNCHANGED <<ret, sig, units, unit, outcome>>
                 ELSE \* line = input("... "); continue
                      LET collected ==
                              Append(Top.lines, input.lines[Top.read + 1])
                      IN  /\ CallsWith([Top EXCEPT !.lines = collected,
                                                   !.read = @ + 1],
                                       TokenizeFrame(JoinLines(collected)))
                          /\ UNCHANGED <<units, unit, outcome>>
          /\ UNCHANGED <<input, store, output, history>>
       \/ /\ Top.pc = 1 /\ sig.t = "exc"
          \* tokenize raised: the message of a LexerError holds neither
          \* word, and an exception of the host is not an XUANError: raise
          /\ Raises(sig)
          /\ UNCHANGED others
       \/ /\ Top.pc = 2 /\ sig.t = "none"
          \* if result is not None: print(result)
          /\ outcome' = [NoOutcome EXCEPT !.status = "returned", !.value = ret]
          /\ output' = IF ret.t # "none" THEN Append(output, <<ret>>)
                       ELSE output
          /\ stack' = Append(Below, [Top EXCEPT !.pc = 0, !.lines = <<>>])
          /\ UNCHANGED <<ret, sig, input, units, unit, store, history>>
       \/ /\ Top.pc = 2 /\ sig.t = "exc"
          \* except XUANError: print(e) / except Exception: print(...)
          /\ outcome' = [NoOutcome EXCEPT !.status = "raised",
                            !.cls = sig.cls, !.origin = sig.origin]
          /\ output' = Append(output, <<ExcV(sig.cls)>>)
          /\ stack' = Append(Below, [Top EXCEPT !.pc = 0, !.lines = <<>>])
          /\ sig' = NoSig
          /\ UNCHANGED <<ret, input, units, unit, store, history>>

\* the lines typed at the console: an expression, two that fail when they
\* are evaluated, a string that is not closed, one that ends after a
\* backslash, a comparison written with its keyword, and the quit command
ConsoleLines ==
    {<<"7", " ", "+", " ", "2">>,
     <<"7", " ", "/", " ", "0">>,
     <<"7", " ", "%", " ", "0">>,
     <<"\"", "a">>,
     <<"\"", "a", "\\">>,
     <<"7", " ", "da", "yu", " ", "2">>,
     QuitCommand,
     <<" ">> \o QuitCommand \o <<" ">>}
MaxConsole == 2

InitRepl ==
    /\ \E lines \in SeqsUpTo(ConsoleLines, MaxConsole) :
          input = ConsoleInput(lines)
    /\ units = <<>>
    /\ unit = 0
    /\ stack = <<ReplSourceFrame>>
    /\ envs = <<InterpreterInit>>
    /\ environment = globals
    /\ ret = NoneV
    /\ sig = NoSig
    /\ output = <<>>
    /\ outcome = NoOutcome
    /\ snapshot = InterpreterInit.values
    /\ touched = {}
    /\ last_call = NoLastCall
    /\ last_try = NoLastTry
    /\ expr_value = NoneV
    /\ call = NoCall

NextRepl ==
    \/ run_repl_source
    \/ tokenize_for
    \/ tokenize_while
    \/ tokenize_return
    \/ interpret
    \/ visit_ExpressionStatement
    \/ visit_BinaryOperation
    \/ visit_Literal
    \/ Propagate

SpecRepl == InitRepl /\ [][NextRepl]_vars

(***************************************************************************)
(* Errors in the interactive loop (run_repl).                              *)
(***************************************************************************)
\* C30: a lexical, syntax or runtime error raised for one input is reported
\* and the loop prompts again: the loop ends only on the quit command or on
\* end-of-file, never by an error that leaves it.
C30_NoErrorLeavesTheLoop == ~(stack = <<>> /\ sig.t = "exc")

\* an error of interpret is reported and the loop prompts again
RuntimeErrorIsReported ==
    [][(Len(stack) = 1 /\ Top.f = "run_repl_source" /\ Top.pc = 2
        /\ sig.t = "exc") =>
           /\ output' = Append(output, <<ExcV(sig.cls)>>)
           /\ Len(stack') = 1 /\ stack'[1].pc = 0 /\ sig' = NoSig]_vars

\* an error that leaves the loop comes from the lexer, never from interpret
OnlyLexerErrorsLeave ==
    (stack = <<>> /\ sig.t = "exc") =>
        sig.cls \in {"LexerError", "builtins.TypeError"}

\* a syntax error is never reported: after it every further line is taken as
\* a continuation, up to end-of-file
SyntaxErrorIsNeverReported ==
    \A k \in 1 .. Len(output) : output[k][1].v # "SyntaxError"

====
